---- MODULE Spec2Model ----
(***************************************************************************)
(* Telemetry analytics engine of PathSense-Agents: the streaming watchdog  *)
(* (watchdog_agent.py), the indexer (indexer_agent.py), the query planner  *)
(* (query_agent.py) and the stores they use (tools.py, database.py).       *)
(*                                                                         *)
(* Units.  Python floats are kept as exact integers: a confidence is in    *)
(* hundredths (0.7 is 70) and a depth free_ahead_m is in centimetres       *)
(* (0.4 m is 40).  Times are integer seconds, as in the source.            *)
(* Python's None is the empty tuple and a present optional value x is the  *)
(* one-element tuple <<x>>.                                                *)
(***************************************************************************)
EXTENDS Integers, Sequences, FiniteSets, TLC

VARIABLES
    clock,            \* int(time.time()): the wall clock, in seconds
    client_windows,   \* WatchdogAgent.client_windows: client_id -> deque(maxlen=100)
    stuck_alerts,     \* WatchdogAgent.stuck_alerts: client_id -> last_alert_time
    accident_alerts,  \* WatchdogAgent.accident_alerts: client_id -> last_alert_time
    alerts,           \* table alerts: one row per tools.notify call, in insertion order
    contacts,         \* table emergency_contacts
    logs,             \* table log_records, in insertion (id) order
    indices,          \* table user_indices, in insertion (id) order
    ncalls,           \* number of process_record calls made so far
    consumed,         \* per client: the process_record calls since its last clear, in order,
                      \* each with its record, clock reading, findings and alerts sent
    last_query,       \* outcome of the last handle_query call, with the store operations it made
    last_build,       \* outcome of the last process_logs call
    threads,          \* per request thread of the server: the call it is in the middle
                      \* of, with its position and local variables; None when idle
    last_ingest       \* response of the last POST /api/logs, with the record it carried

vars == <<clock, client_windows, stuck_alerts, accident_alerts, alerts, contacts,
          logs, indices, ncalls, consumed, last_query, last_build, threads,
          last_ingest>>

watchdog_vars == <<client_windows, stuck_alerts, accident_alerts, alerts, ncalls,
                   consumed>>

store_vars == <<logs, indices, last_build>>

-----------------------------------------------------------------------------
(* nav_types.py: constants and event categories *)

CRASH_NEAR_M == 60
CONF_MIN == 60
MERGE_WINDOW_S == 3
STUCK_MIN_S == 120
STUCK_ALERT_S == 300
STUCK_VARIANCE_M == 5
STUCK_GAP_S == 10
ACCIDENT_PATTERN_WINDOW_S == 5
ACCIDENT_NO_PROCEED_S == 30
ACCIDENT_DEPTH_M == 40
ACCIDENT_CONF == 70

OBSTACLE_EVENTS == {"obstacle_center", "obstacle_close", "collision_warning"}
ACCIDENT_EVENTS == {"fall", "impact", "collision", "device_drop"}

\* watchdog_agent.py, WatchdogAgent.__init__
WINDOW_MAXLEN == 100
stuck_debounce == 900
accident_debounce == 7200
emergency_contacts ==
    [c \in {"F7d...aK", "test_client", "demo_user"} |->
        IF c = "F7d...aK" THEN <<"contact_001", "contact_002">>
        ELSE IF c = "test_client" THEN <<"emergency_contact_001">>
        ELSE <<"demo_contact_001">>]

\* the rolling depth window of both stationary scans keeps 10 values
DEPTHS_MAXLEN == 10
\* _check_accident: pattern 2 needs 3 records, looks back 10, pattern 3 reads the
\* last 5 records for veers and the last 10 for movement
PATTERN_MIN_WINDOW == 3
ANCHOR_LOOKBACK == 10
VEER_TAIL == 5
VEER_MIN == 3
MOVE_TAIL == 10
NO_MOVE_S == 120
\* _find_almost_crashes: the key of a falsy depth in min(), 999 m
DEPTH_KEY_DEFAULT == 99900

-----------------------------------------------------------------------------
(* Python values *)

None == << >>
Some(x) == <<x>>

\* dict.get(key, default)
Get(d, k, default) == IF k \in DOMAIN d THEN d[k] ELSE default

\* d[key] = value
Put(d, k, v) == [x \in (DOMAIN d) \cup {k} |-> IF x = k THEN v ELSE d[x]]

\* a pop that leaves the entry in place
Pop_keep(d, k) == d

\* d.pop(key, None)
Pop(d, k) == [x \in (DOMAIN d) \ {k} |-> d[x]]

\* set(seq)
ToSet(s) == {s[i] : i \in 1..Len(s)}

SeqMax(s) == CHOOSE x \in ToSet(s) : \A y \in ToSet(s) : y <= x
SeqMin(s) == CHOOSE x \in ToSet(s) : \A y \in ToSet(s) : x <= y

\* min(S) and max(S) of a set of integers
SetMin(S) == CHOOSE x \in S : \A y \in S : x <= y
SetMax(S) == CHOOSE x \in S : \A y \in S : y <= x

RECURSIVE SortedSeq(_)
\* sorted(S) of a set of integers
SortedSeq(S) == IF S = {} THEN << >> ELSE <<SetMin(S)>> \o SortedSeq(S \ {SetMin(S)})

\* the Python expression  sub in s  on strings
Contains(s, sub) ==
    \E i \in 1..(Len(s) - Len(sub) + 1) : SubSeq(s, i, i + Len(sub) - 1) = sub

\* a directional test by exact membership
is_directional_exact(event) == event \in {"veer_left", "veer_right", "proceed"}

\* nav_types.is_directional_event
is_directional_event(event) ==
    \E d \in {"veer_left", "veer_right", "proceed"} : Contains(event, d)

\* any(is_directional_event(e) for e in events)
has_movement(events) == \E i \in 1..Len(events) : is_directional_event(events[i])

\* s[-n:]
Tail_n(s, n) == IF Len(s) <= n THEN s ELSE SubSeq(s, Len(s) - n + 1, Len(s))

\* s[:n]
Head_n(s, n) == IF Len(s) <= n THEN s ELSE SubSeq(s, 1, n)

\* depths.append(depth); if len(depths) > 10: depths.pop(0)
PushDepth(depths, depth) ==
    IF depth = None THEN depths
    ELSE IF Len(depths) + 1 > DEPTHS_MAXLEN THEN Tail(Append(depths, depth[1]))
    ELSE Append(depths, depth[1])

\* len(depths) >= 3 and max(depths) - min(depths) < STUCK_VARIANCE_M
depth_stationary(depths) ==
    Len(depths) >= 3 /\ SeqMax(depths) - SeqMin(depths) < STUCK_VARIANCE_M

\* (is_stopped or depth_stationary) and not has_movement
is_stationary(events, depths) ==
    ("stop" \in ToSet(events) \/ depth_stationary(depths)) /\ ~has_movement(events)

-----------------------------------------------------------------------------
(* database.py and tools.py: contacts and the alert table *)

\* DatabaseService.get_emergency_contacts + tools.get_emergency_contacts
get_emergency_contacts(client_id) ==
    LET rows == SelectSeq(contacts,
                    LAMBDA r : r.client_id = client_id /\ r.authorized = 1)
    IN [i \in 1..Len(rows) |-> rows[i].contact_id]

\* an authorization that asks only whether the requester is anyone's contact
is_authorized_any_client(requester_id, client_id) ==
    \E i \in 1..Len(contacts) :
        contacts[i].contact_id = requester_id /\ contacts[i].authorized = 1

\* DatabaseService.is_authorized
is_authorized(requester_id, client_id) ==
    \E i \in 1..Len(contacts) :
        /\ contacts[i].client_id = client_id
        /\ contacts[i].contact_id = requester_id
        /\ contacts[i].authorized = 1

\* contacts = await tools.get_emergency_contacts(client_id), with the fallback
\* to the in-memory self.emergency_contacts when the table has none
alert_contacts(client_id) ==
    IF get_emergency_contacts(client_id) # << >>
    THEN get_emergency_contacts(client_id)
    ELSE Get(emergency_contacts, client_id, << >>)

\* for contact_id in contacts: await tools.notify(contact_id, alert.to_dict())
\* each call inserts one row in table alerts (created_at is the wall clock;
\* call is the ordinal of the process_record call that sent it)
notify_all(contact_list, alert, now, call) ==
    [i \in 1..Len(contact_list) |->
        [alert_type |-> alert.type, client_id |-> alert.client_id,
         contact_id |-> contact_list[i], t |-> alert.t,
         rationale |-> alert.rationale, since |-> alert.since,
         created_at |-> now, call |-> call]]

-----------------------------------------------------------------------------
(* watchdog_agent.py *)

\* a full window that refuses the new record
deque_append_keep_oldest(window, record) ==
    IF Len(window) >= WINDOW_MAXLEN THEN window ELSE Append(window, record)

\* deque(maxlen=100).append(record)
deque_append(window, record) ==
    IF Len(window) >= WINDOW_MAXLEN THEN Append(Tail(window), record)
    ELSE Append(window, record)

RECURSIVE stuck_scan(_, _, _, _)
\* _check_stuck, the loop  for record in reversed(window);  i is the index of
\* the record to look at and stationary_start the value found so far
stuck_scan(window, i, depths, stationary_start) ==
    IF i = 0 THEN stationary_start
    ELSE LET record == window[i]
             depths1 == PushDepth(depths, record.free_ahead_m)
         IN IF is_stationary(record.events, depths1)
            THEN stuck_scan(window, i - 1, depths1, Some(record.t))
            ELSE stationary_start

\* _check_stuck up to "if stationary_start is None: return"
stationary_start_of(window) ==
    IF Len(window) < 2 THEN None ELSE stuck_scan(window, Len(window), << >>, None)

\* a debounce that waits only for the alert threshold
stuck_debounce_short(now, last_alert) == now - last_alert >= STUCK_ALERT_S

\* if now - last_alert >= self.stuck_debounce
stuck_debounce_elapsed(now, last_alert) == now - last_alert >= stuck_debounce

\* _check_stuck: whether an alert is sent, and its since and duration
check_stuck(window, last_alert, now) ==
    LET stationary_start == stationary_start_of(window)
        duration == IF stationary_start = None THEN 0 ELSE now - stationary_start[1]
        detected == stationary_start # None /\ duration >= STUCK_ALERT_S
    IN [detected |-> detected,
        send |-> detected /\ stuck_debounce_elapsed(now, last_alert),
        since |-> stationary_start,
        duration |-> duration]

\* a rationale string, by the values formatted into it
Rationale(pattern, events, depth, duration, veers) ==
    [pattern |-> pattern, events |-> events, depth |-> depth,
     duration |-> duration, veers |-> veers]

NoMatch == [pattern |-> "none", t |-> 0, rationale |-> None]

RECURSIVE no_proceed_scan(_, _, _, _, _)
\* _check_accident pattern 2, the loop  for j in range(i + 1, len(window))
no_proceed_scan(window, j, obstacle_time, stop_found, no_proceed_duration) ==
    IF j > Len(window)
    THEN [stop_found |-> stop_found, no_proceed_duration |-> no_proceed_duration]
    ELSE LET future_rec == window[j]
             future_t == future_rec.t
             future_events == ToSet(future_rec.events)
             stop_found1 == stop_found \/ "stop" \in future_events
         IN IF future_t - obstacle_time > ACCIDENT_PATTERN_WINDOW_S + ACCIDENT_NO_PROCEED_S
            THEN [stop_found |-> stop_found, no_proceed_duration |-> no_proceed_duration]
            ELSE IF stop_found1 /\ has_movement(future_rec.events)
            THEN [stop_found |-> stop_found1, no_proceed_duration |-> no_proceed_duration]
            ELSE no_proceed_scan(window, j + 1, obstacle_time, stop_found1,
                     IF stop_found1 THEN future_t - obstacle_time ELSE no_proceed_duration)

\* the anchor test of pattern 2
is_anchor(rec) ==
    /\ ToSet(rec.events) \cap OBSTACLE_EVENTS # {}
    /\ ~(rec.confidence < ACCIDENT_CONF)
    /\ ~(rec.free_ahead_m = None \/ rec.free_ahead_m[1] > ACCIDENT_DEPTH_M)

\* range(len(window) - 1, max(0, len(window) - 10), -1), as 1-based indices:
\* the lowest index the anchor loop visits
anchor_lowest(window) ==
    (IF Len(window) - ANCHOR_LOOKBACK > 0 THEN Len(window) - ANCHOR_LOOKBACK ELSE 0) + 2

RECURSIVE anchor_scan(_, _)
\* _check_accident pattern 2, the loop over i
anchor_scan(window, i) ==
    IF i < anchor_lowest(window) THEN NoMatch
    ELSE LET rec == window[i]
             scan == no_proceed_scan(window, i + 1, rec.t, FALSE, 0)
         IN IF ~is_anchor(rec) THEN anchor_scan(window, i - 1)
            ELSE IF scan.stop_found /\ scan.no_proceed_duration >= ACCIDENT_NO_PROCEED_S
            THEN [pattern |-> "obstacle_stop", t |-> rec.t,
                  rationale |-> Some(Rationale("obstacle_stop", {}, rec.free_ahead_m[1],
                                               scan.no_proceed_duration, 0))]
            ELSE anchor_scan(window, i - 1)

\* sum(1 for e in events if "veer" in e)
veers_in(events) == Cardinality({k \in 1..Len(events) : Contains(events[k], "veer")})

RECURSIVE veer_count(_)
\* pattern 3: the veers of a list of records
veer_count(recs) ==
    IF recs = << >> THEN 0 ELSE veers_in(Head(recs).events) + veer_count(Tail(recs))

RECURSIVE time_since_last_move(_, _, _, _)
\* pattern 3, the loop  for rec in reversed(window[-10:])
time_since_last_move(tail, i, current_t, acc) ==
    IF i = 0 THEN acc
    ELSE IF has_movement(tail[i].events) THEN acc
    ELSE time_since_last_move(tail, i - 1, current_t, current_t - tail[i].t)

\* pattern 3 as a whole
veer_surge(window, current_record) ==
    LET count == veer_count(Tail_n(window, VEER_TAIL))
        tail == Tail_n(window, MOVE_TAIL)
        since_move == time_since_last_move(tail, Len(tail), current_record.t, 0)
    IN IF count >= VEER_MIN /\ "stop" \in ToSet(current_record.events)
          /\ since_move >= NO_MOVE_S
       THEN [pattern |-> "veer_surge", t |-> current_record.t,
             rationale |-> Some(Rationale("veer_surge", {}, 0, since_move, count))]
       ELSE NoMatch

\* an accident check that tries the veer surge before the obstacle anchor
check_accident_veer_first(window, current_record) ==
    IF ToSet(current_record.events) \cap ACCIDENT_EVENTS # {}
    THEN [pattern |-> "direct", t |-> current_record.t,
          rationale |-> Some(Rationale("direct",
                             ToSet(current_record.events) \cap ACCIDENT_EVENTS, 0, 0, 0))]
    ELSE IF Len(window) < PATTERN_MIN_WINDOW THEN NoMatch
    ELSE IF veer_surge(window, current_record).pattern # "none"
    THEN veer_surge(window, current_record)
    ELSE anchor_scan(window, Len(window))

\* an accident check that returns on a short window before it looks at the record
check_accident_short_window(window, current_record) ==
    IF Len(window) < PATTERN_MIN_WINDOW THEN NoMatch
    ELSE IF ToSet(current_record.events) \cap ACCIDENT_EVENTS # {}
    THEN [pattern |-> "direct", t |-> current_record.t,
          rationale |-> Some(Rationale("direct",
                             ToSet(current_record.events) \cap ACCIDENT_EVENTS, 0, 0, 0))]
    ELSE IF anchor_scan(window, Len(window)).pattern # "none"
    THEN anchor_scan(window, Len(window))
    ELSE veer_surge(window, current_record)

\* _check_accident: the pattern that reaches _send_accident_alert, if any
check_accident(window, current_record) ==
    LET events == ToSet(current_record.events)
    IN IF events \cap ACCIDENT_EVENTS # {}
       THEN [pattern |-> "direct", t |-> current_record.t,
             rationale |-> Some(Rationale("direct", events \cap ACCIDENT_EVENTS, 0, 0, 0))]
       ELSE IF Len(window) < PATTERN_MIN_WINDOW THEN NoMatch
       ELSE IF anchor_scan(window, Len(window)).pattern # "none"
       THEN anchor_scan(window, Len(window))
       ELSE veer_surge(window, current_record)

\* an accident debounce as short as the stuck debounce
accident_debounced_short(now, last_alert) == now - last_alert < stuck_debounce

\* _send_accident_alert:  if now - last_alert < self.accident_debounce: return
accident_debounced(now, last_alert) == now - last_alert < accident_debounce

\* a stamp shared by all clients: the latest stuck alert of any of them
last_stuck_alert_any(client_id) ==
    IF DOMAIN stuck_alerts = {} THEN 0
    ELSE SetMax({stuck_alerts[c] : c \in DOMAIN stuck_alerts})

\* self.stuck_alerts.get(client_id, 0)
last_stuck_alert(client_id) == Get(stuck_alerts, client_id, 0)

\* self.accident_alerts.get(client_id, 0)
last_accident_alert(client_id) == Get(accident_alerts, client_id, 0)

\* Alert(alert_type="stuck_alert", ...).to_dict()
StuckAlert(client_id, now, since) ==
    [type |-> "stuck_alert", client_id |-> client_id, t |-> now,
     rationale |-> None, since |-> since]

\* Alert(alert_type="accident_alert", ...).to_dict()
AccidentAlert(client_id, t, rationale) ==
    [type |-> "accident_alert", client_id |-> client_id, t |-> t,
     rationale |-> rationale, since |-> None]

\* WatchdogAgent.process_record: what it does to the watchdog and to table alerts
\* a last-alert stamp written only when a notification was sent
stamped_on_delivery(table, client_id, now, sent, rows) ==
    IF sent /\ rows # << >> THEN Put(table, client_id, now) ELSE table

\* self.stuck_alerts[client_id] = now, self.accident_alerts[client_id] = now:
\* written after the loop over the contacts, however many there were
stamped(table, client_id, now, sent, rows) ==
    IF sent THEN Put(table, client_id, now) ELSE table

watchdog_run(record) ==
    LET client_id == record.client_id
        now == clock
        window == deque_append(Get(client_windows, client_id, << >>), record)
        stuck == check_stuck(window, last_stuck_alert(client_id), now)
        acc == check_accident(window, record)
        acc_send == acc.pattern # "none"
                    /\ ~accident_debounced(now, last_accident_alert(client_id))
        stuck_out == IF stuck.send
                     THEN <<StuckAlert(client_id, now, stuck.since)>> ELSE << >>
        acc_out == IF acc_send
                   THEN <<AccidentAlert(client_id, acc.t, acc.rationale)>> ELSE << >>
        stuck_rows == IF stuck.send
                      THEN notify_all(alert_contacts(client_id), stuck_out[1], now, ncalls + 1)
                      ELSE << >>
        acc_rows == IF acc_send
                    THEN notify_all(alert_contacts(client_id), acc_out[1], now, ncalls + 1)
                    ELSE << >>
    IN /\ client_windows' = Put(client_windows, client_id, window)
       /\ stuck_alerts' = stamped(stuck_alerts, client_id, now, stuck.send, stuck_rows)
       /\ accident_alerts' = stamped(accident_alerts, client_id, now, acc_send, acc_rows)
       /\ alerts' = alerts \o stuck_rows \o acc_rows
       /\ ncalls' = ncalls + 1
       /\ consumed' = [consumed EXCEPT ![client_id] =
                          Append(@, [record |-> record, now |-> now, call |-> ncalls + 1,
                                     stuck_detected |-> stuck.detected,
                                     pattern |-> acc.pattern,
                                     emitted |-> stuck_out \o acc_out])]

\* WatchdogAgent.process_record, run to completion within one clock second
process_record(record) ==
    /\ watchdog_run(record)
    /\ UNCHANGED <<clock, contacts, logs, indices, last_query, last_build,
                   threads, last_ingest>>

\* the rows in table alerts when the fail_at-th call of tools.notify in the loop
\* over the contacts raises: the earlier calls committed theirs, and the failing
\* one committed its row (saved) when it raised after db_service.insert_alert
notify_until(contact_list, alert, now, call, fail_at, saved) ==
    SubSeq(notify_all(contact_list, alert, now, call), 1,
           IF saved THEN fail_at ELSE fail_at - 1)

\* WatchdogAgent.process_record when the fail_at-th tools.notify of the stuck
\* alert (phase "stuck") or of the accident alert (phase "accident") raises:
\* nothing catches the exception in the loop, in _send_*_alert, in the check or
\* in process_record, so the statements after the call are not run
process_record_raising(record, phase, fail_at, saved) ==
    LET client_id == record.client_id
        now == clock
        window == deque_append(Get(client_windows, client_id, << >>), record)
        stuck == check_stuck(window, last_stuck_alert(client_id), now)
        acc == check_accident(window, record)
        acc_send == acc.pattern # "none"
                    /\ ~accident_debounced(now, last_accident_alert(client_id))
        contact_list == alert_contacts(client_id)
        stuck_alert == StuckAlert(client_id, now, stuck.since)
        acc_alert == AccidentAlert(client_id, acc.t, acc.rationale)
        in_stuck == phase = "stuck"
        stuck_rows == IF ~stuck.send THEN << >>
                      ELSE IF in_stuck
                      THEN notify_until(contact_list, stuck_alert, now, ncalls + 1,
                                        fail_at, saved)
                      ELSE notify_all(contact_list, stuck_alert, now, ncalls + 1)
        acc_rows == IF in_stuck THEN << >>
                    ELSE notify_until(contact_list, acc_alert, now, ncalls + 1,
                                      fail_at, saved)
    IN /\ phase \in {"stuck", "accident"}
       /\ fail_at \in 1..Len(contact_list)
       /\ IF in_stuck THEN stuck.send ELSE acc_send
       /\ client_windows' = Put(client_windows, client_id, window)
       /\ stuck_alerts' = IF stuck.send /\ ~in_stuck THEN Put(stuck_alerts, client_id, now)
                          ELSE stuck_alerts
       /\ accident_alerts' = accident_alerts
       /\ alerts' = alerts \o stuck_rows \o acc_rows
       /\ ncalls' = ncalls + 1
       /\ consumed' = [consumed EXCEPT ![client_id] =
                          Append(@, [record |-> record, now |-> now, call |-> ncalls + 1,
                                     stuck_detected |-> stuck.detected,
                                     pattern |-> IF in_stuck THEN "none" ELSE acc.pattern,
                                     emitted |-> IF stuck.send /\ ~in_stuck
                                                 THEN <<stuck_alert>> ELSE << >>,
                                     raised |-> phase,
                                     raised_alert |-> IF in_stuck THEN stuck_alert
                                                      ELSE acc_alert,
                                     contact_list |-> contact_list,
                                     fail_at |-> fail_at])]
       /\ UNCHANGED <<clock, contacts, logs, indices, last_query, last_build,
                   threads, last_ingest>>

\* a clear that empties the window and keeps the stamps
clear_window_only(client_id) ==
    /\ client_windows' = IF client_id \in DOMAIN client_windows
                         THEN Put(client_windows, client_id, << >>)
                         ELSE client_windows
    /\ consumed' = [consumed EXCEPT ![client_id] = << >>]
    /\ UNCHANGED <<clock, stuck_alerts, accident_alerts, alerts, contacts, logs,
                   indices, ncalls, last_query, last_build, threads, last_ingest>>

\* a clear that empties the windows and drops the stamps of every client
clear_all_state(client_id) ==
    /\ client_windows' = [c \in DOMAIN client_windows |-> << >>]
    /\ stuck_alerts' = << >>
    /\ accident_alerts' = << >>
    /\ consumed' = [consumed EXCEPT ![client_id] = << >>]
    /\ UNCHANGED <<clock, alerts, contacts, logs, indices, ncalls,
                   last_query, last_build,
                   threads, last_ingest>>

\* WatchdogAgent.clear_client_state
clear_client_state(client_id) ==
    /\ client_windows' = IF client_id \in DOMAIN client_windows
                         THEN Put(client_windows, client_id, << >>)
                         ELSE client_windows
    /\ stuck_alerts' = Pop(stuck_alerts, client_id)
    /\ accident_alerts' = Pop(accident_alerts, client_id)
    /\ consumed' = [consumed EXCEPT ![client_id] = << >>]
    /\ UNCHANGED <<clock, alerts, contacts, logs, indices, ncalls,
                   last_query, last_build,
                   threads, last_ingest>>

\* the wall clock moves on to a later second
Tick(to) ==
    /\ to > clock
    /\ clock' = to
    /\ UNCHANGED <<client_windows, stuck_alerts, accident_alerts, alerts, contacts,
                   logs, indices, ncalls, consumed, last_query, last_build,
                   threads, last_ingest>>

\* The server handles each request in a thread of its own and calls
\* process_record on the one WatchdogAgent with no lock: the calls of two
\* threads interleave.  A call is cut in three steps, each ending where the
\* thread waits for the database in tools.notify.

\* process_record up to the stuck alert: the append to the window and
\* _check_stuck down to the debounce test on self.stuck_alerts
begin_record(th, record) ==
    LET client_id == record.client_id
        now == clock
        window == deque_append(Get(client_windows, client_id, << >>), record)
        stuck == check_stuck(window, last_stuck_alert(client_id), now)
    IN /\ threads[th] = None
       /\ client_windows' = Put(client_windows, client_id, window)
       /\ ncalls' = ncalls + 1
       /\ threads' = [threads EXCEPT ![th] =
                         Some([pc |-> "stuck", record |-> record, call |-> ncalls + 1,
                               now |-> now, send |-> stuck.send, since |-> stuck.since,
                               acc |-> NoMatch])]
       /\ UNCHANGED <<clock, stuck_alerts, accident_alerts, alerts, contacts, logs,
                      indices, consumed, last_query, last_build, last_ingest>>

\* _send_stuck_alert and  self.stuck_alerts[client_id] = now  when the test
\* passed; then _check_accident down to the debounce test of _send_accident_alert
finish_stuck(th) ==
    LET call == threads[th][1]
        client_id == call.record.client_id
        window == Get(client_windows, client_id, << >>)
        acc == check_accident(window, call.record)
        acc_send == acc.pattern # "none"
                    /\ ~accident_debounced(clock, last_accident_alert(client_id))
    IN /\ threads[th] # None
       /\ threads[th][1].pc = "stuck"
       /\ alerts' = IF call.send
                    THEN alerts \o notify_all(alert_contacts(client_id),
                                     StuckAlert(client_id, clock, call.since),
                                     clock, call.call)
                    ELSE alerts
       /\ stuck_alerts' = IF call.send THEN Put(stuck_alerts, client_id, call.now)
                          ELSE stuck_alerts
       /\ threads' = [threads EXCEPT ![th] =
                         Some([call EXCEPT !.pc = "accident", !.now = clock,
                                           !.send = acc_send, !.acc = acc])]
       /\ UNCHANGED <<clock, client_windows, accident_alerts, contacts, logs, indices,
                      ncalls, consumed, last_query, last_build, last_ingest>>

\* the notifications of _send_accident_alert and
\* self.accident_alerts[client_id] = now  when the test passed; the call returns
finish_accident(th) ==
    LET call == threads[th][1]
        client_id == call.record.client_id
    IN /\ threads[th] # None
       /\ threads[th][1].pc = "accident"
       /\ alerts' = IF call.send
                    THEN alerts \o notify_all(alert_contacts(client_id),
                                     AccidentAlert(client_id, call.acc.t, call.acc.rationale),
                                     clock, call.call)
                    ELSE alerts
       /\ accident_alerts' = IF call.send THEN Put(accident_alerts, client_id, call.now)
                             ELSE accident_alerts
       /\ threads' = [threads EXCEPT ![th] = None]
       /\ UNCHANGED <<clock, client_windows, stuck_alerts, contacts, logs, indices,
                      ncalls, consumed, last_query, last_build, last_ingest>>

-----------------------------------------------------------------------------
(* database.py and tools.py: the record store and the index store *)

RECURSIVE SortByT(_)
\* ORDER BY t ASC / sorted(..., key=t): a stable sort on the field t
SortByT(s) ==
    IF s = << >> THEN << >>
    ELSE LET m == SeqMin([i \in 1..Len(s) |-> s[i].t])
             i == CHOOSE k \in 1..Len(s) :
                      s[k].t = m /\ \A j \in 1..(k - 1) : s[j].t # m
         IN <<s[i]>> \o SortByT(SubSeq(s, 1, i - 1) \o SubSeq(s, i + 1, Len(s)))

\* a fetch whose end bound is inclusive
get_logs_closed(client_id, session_id, time_start, time_end) ==
    SortByT(SelectSeq(logs, LAMBDA r :
        /\ r.client_id = client_id
        /\ (session_id # None => r.session_id = session_id[1])
        /\ (time_start # None => r.t >= time_start[1])
        /\ (time_end # None => r.t <= time_end[1])))

\* DatabaseService.get_logs + tools.get_logs_from_db (limit is never passed)
get_logs(client_id, session_id, time_start, time_end) ==
    SortByT(SelectSeq(logs, LAMBDA r :
        /\ r.client_id = client_id
        /\ (session_id # None => r.session_id = session_id[1])
        /\ (time_start # None => r.t >= time_start[1])
        /\ (time_end # None => r.t < time_end[1])))

\* key = f"index:{client_id}" (+ f":{session_id}"), by its colon-separated parts
index_key(client_id, session_id) ==
    IF session_id # None THEN <<"index", client_id, session_id[1]>>
    ELSE <<"index", client_id>>

\* the row query.first() returns in save_index and get_index: the first row of
\* the client, of the session too when one is given; 0 when there is none
first_row(table, client_id, session_id) ==
    LET hits == {i \in 1..Len(table) :
                    /\ table[i].client_id = client_id
                    /\ (session_id # None => table[i].session_id = session_id)}
    IN IF hits = {} THEN 0 ELSE CHOOSE i \in hits : \A j \in hits : i <= j

\* the JSON column: json.dumps turns the int keys of by_time into strings
json_index(index) ==
    [index EXCEPT !.by_time =
        [k \in {ToString(t) : t \in DOMAIN index.by_time} |->
            index.by_time[CHOOSE t \in DOMAIN index.by_time : ToString(t) = k]]]

\* DatabaseService.save_index
save_index(table, client_id, index_data, session_id, time_start, time_end) ==
    LET existing == first_row(table, client_id, session_id)
    IN IF existing # 0
       THEN [table EXCEPT ![existing] =
                [@ EXCEPT !.index_data = json_index(index_data),
                          !.time_start = time_start, !.time_end = time_end]]
       ELSE Append(table, [client_id |-> client_id, session_id |-> session_id,
                           time_start |-> time_start, time_end |-> time_end,
                           index_data |-> json_index(index_data)])

\* tools.persist_index: client and session are read back from the key
persist_index(table, key, value) ==
    IF Len(key) < 2 THEN table
    ELSE LET timestamps == DOMAIN value.by_time
         IN save_index(table, key[2], value,
                IF Len(key) > 2 THEN Some(key[3]) ELSE None,
                IF timestamps # {} THEN Some(SetMin(timestamps)) ELSE None,
                IF timestamps # {} THEN Some(SetMax(timestamps)) ELSE None)

\* DatabaseService.get_index + tools.read_index
\* a cache lookup that never finds an index
read_index_never(table, key) == None

read_index(table, key) ==
    IF Len(key) < 2 THEN None
    ELSE LET row == first_row(table, key[2], IF Len(key) > 2 THEN Some(key[3]) ELSE None)
         IN IF row = 0 THEN None ELSE Some(table[row].index_data)

-----------------------------------------------------------------------------
(* indexer_agent.py *)

\* a validator without the confidence range check
validate_record_any_confidence(record) ==
    /\ {"client_id", "session_id", "t", "events", "confidence"} \subseteq DOMAIN record
    /\ record.t_type = "int"
    /\ record.events_type = "list"

\* IndexerAgent._validate_record
validate_record(record) ==
    /\ {"client_id", "session_id", "t", "events", "confidence"} \subseteq DOMAIN record
    /\ record.t_type = "int"
    /\ record.events_type = "list"
    /\ 0 <= record.confidence /\ record.confidence <= 100

\* process_logs: the record built from a database row
record_of(log_dict) ==
    [client_id |-> log_dict.client_id, session_id |-> log_dict.session_id,
     t |-> log_dict.t, t_type |-> log_dict.t_type,
     events |-> log_dict.events, events_type |-> log_dict.events_type,
     confidence |-> log_dict.confidence,
     classes |-> IF log_dict.classes # None /\ log_dict.classes # Some(<< >>)
                 THEN log_dict.classes ELSE None,
     free_ahead_m |-> log_dict.free_ahead_m]

\* the number of times x occurs in the list s
Count(s, x) == Cardinality({i \in 1..Len(s) : s[i] = x})

\* an aggregation that counts a timestamp once: a record whose t is already
\* in by_time only replaces the record there
add_to_index_once(index, record) ==
    LET t == record.t
        classes == IF record.classes = None THEN << >> ELSE record.classes[1]
        fresh == t \notin DOMAIN index.by_time
        tags == (DOMAIN index.counters) \cup (IF fresh THEN ToSet(record.events) ELSE {})
        labels == (DOMAIN index.by_class) \cup (IF fresh THEN ToSet(classes) ELSE {})
    IN [index EXCEPT
          !.by_time = Put(index.by_time, t, record),
          !.by_event = [e \in tags |->
                Get(index.by_event, e, << >>)
                   \o [i \in 1..(IF fresh THEN Count(record.events, e) ELSE 0) |-> t]],
          !.counters = [e \in tags |-> Get(index.counters, e, 0)
                                          + (IF fresh THEN Count(record.events, e) ELSE 0)],
          !.by_class = [c \in labels |-> Get(index.by_class, c, 0)
                                            + (IF fresh THEN Count(classes, c) ELSE 0)]]

\* the JSON text of a class given with its score, a list inside the list of
\* classes; a list cannot be a key of by_class
NestedLabel == "[person, 0.9]"

hashable(label) == label # NestedLabel

\* the position of the first label that cannot be a key, 0 when there is none
first_unhashable(labels) ==
    IF \A i \in 1..Len(labels) : hashable(labels[i]) THEN 0
    ELSE CHOOSE i \in 1..Len(labels) :
            ~hashable(labels[i]) /\ \A j \in 1..(i - 1) : hashable(labels[j])

\* index["by_class"][cls] += 1 raises TypeError on a label that cannot be a key
add_raises(record) ==
    record.classes # None /\ first_unhashable(record.classes[1]) # 0

\* IndexerAgent._add_to_index
add_to_index(index, record) ==
    LET t == record.t
        given == IF record.classes = None THEN << >> ELSE record.classes[1]
        classes == IF first_unhashable(given) = 0 THEN given
                   ELSE SubSeq(given, 1, first_unhashable(given) - 1)
        tags == (DOMAIN index.counters) \cup ToSet(record.events)
        labels == (DOMAIN index.by_class) \cup ToSet(classes)
    IN [index EXCEPT
          !.by_time = Put(index.by_time, t, record),
          !.by_event = [e \in tags |->
                Get(index.by_event, e, << >>) \o [i \in 1..Count(record.events, e) |-> t]],
          !.counters = [e \in tags |-> Get(index.counters, e, 0) + Count(record.events, e)],
          !.by_class = [c \in labels |-> Get(index.by_class, c, 0) + Count(classes, c)]]

\* min(current_group, key=lambda x: x["free_ahead_m"] or 999): the key
depth_key(x) ==
    IF x.free_ahead_m = None \/ x.free_ahead_m[1] = 0 THEN DEPTH_KEY_DEFAULT
    ELSE x.free_ahead_m[1]

\* min(current_group, key=...): the first element of the least key
best_of(current_group) ==
    current_group[CHOOSE i \in 1..Len(current_group) :
        /\ \A j \in 1..Len(current_group) : depth_key(current_group[i]) <= depth_key(current_group[j])
        /\ \A j \in 1..(i - 1) : depth_key(current_group[j]) # depth_key(current_group[i])]

\* a grouping that measures the window from the first element of the group
same_group_from_first(current_group, candidate) ==
    candidate.t - current_group[1].t <= MERGE_WINDOW_S

\* a grouping that leaves out the candidate exactly MERGE_WINDOW_S later
same_group_strict(current_group, candidate) ==
    candidate.t - current_group[Len(current_group)].t < MERGE_WINDOW_S

\* candidates[i]["t"] - current_group[-1]["t"] <= MERGE_WINDOW_S
same_group(current_group, candidate) ==
    candidate.t - current_group[Len(current_group)].t <= MERGE_WINDOW_S

RECURSIVE merge_scan(_, _, _, _)
\* _find_almost_crashes, the loop  for i in range(1, len(candidates))  and the last group
merge_scan(candidates, i, current_group, merged) ==
    IF i > Len(candidates) THEN Append(merged, best_of(current_group))
    ELSE IF same_group(current_group, candidates[i])
    THEN merge_scan(candidates, i + 1, Append(current_group, candidates[i]), merged)
    ELSE merge_scan(candidates, i + 1, <<candidates[i]>>,
                    Append(merged, best_of(current_group)))

\* _find_almost_crashes from "Merge nearby events" on
merge_candidates(candidates) ==
    IF candidates = << >> THEN << >>
    ELSE merge_scan(SortByT(candidates), 2, <<SortByT(candidates)[1]>>, << >>)

\* _find_almost_crashes: whether a record of by_time is a candidate
is_candidate(record, crash_near_m, conf_min) ==
    /\ ToSet(record.events) \cap OBSTACLE_EVENTS # {}
    /\ ~(record.confidence < conf_min)
    /\ ~(record.free_ahead_m # None /\ record.free_ahead_m[1] > crash_near_m)

\* _find_almost_crashes: the candidate made from a record
candidate_of(t, record) ==
    [t |-> t, free_ahead_m |-> record.free_ahead_m,
     classes |-> IF record.classes = None THEN << >> ELSE record.classes[1],
     confidence |-> record.confidence,
     events |-> ToSet(record.events) \cap OBSTACLE_EVENTS]

\* the candidates of an index, in ascending t
candidates_of(index, crash_near_m, conf_min) ==
    LET ts == {t \in DOMAIN index.by_time :
                  is_candidate(index.by_time[t], crash_near_m, conf_min)}
        ordered == SortedSeq(ts)
    IN [i \in 1..Len(ordered) |-> candidate_of(ordered[i], index.by_time[ordered[i]])]

\* IndexerAgent._find_almost_crashes
find_almost_crashes(index) ==
    merge_candidates(candidates_of(index, CRASH_NEAR_M, CONF_MIN))


\* an emission rule that leaves out the span of exactly stuck_min_s
long_enough_strict(start_t, end_t, stuck_min_s) == end_t - start_t > stuck_min_s

\* duration = current_end - current_start; if duration >= stuck_min_s
long_enough(start_t, end_t, stuck_min_s) == end_t - start_t >= stuck_min_s

RECURSIVE stationary_walk(_, _, _, _, _, _)
\* _find_stuck_intervals, the loop  for t, record in records  and the final interval;
\* current is None or <<[start, end]>>
stationary_walk(records, i, current, depths, intervals, stuck_min_s) ==
    LET closed == IF current # None
                     /\ long_enough(current[1].start_t, current[1].end_t, stuck_min_s)
                  THEN Append(intervals,
                          [start_t |-> current[1].start_t, end_t |-> current[1].end_t,
                           duration_s |-> current[1].end_t - current[1].start_t])
                  ELSE intervals
    IN IF i > Len(records) THEN closed
       ELSE LET record == records[i]
                t == record.t
                depths1 == PushDepth(depths, record.free_ahead_m)
            IN IF is_stationary(record.events, depths1)
               THEN stationary_walk(records, i + 1,
                        Some([start_t |-> IF current = None THEN t ELSE current[1].start_t,
                              end_t |-> t]),
                        depths1, intervals, stuck_min_s)
               ELSE stationary_walk(records, i + 1, None,
                        IF current # None THEN << >> ELSE depths1, closed, stuck_min_s)

RECURSIVE trailing_candidate(_, _, _, _)
\* _find_stuck_intervals, the loop  for t, record in records: current_start
\* after the last record, None when the last record was not stationary
trailing_candidate(records, i, current_start, depths) ==
    IF i > Len(records) THEN current_start
    ELSE LET record == records[i]
             depths1 == PushDepth(depths, record.free_ahead_m)
         IN IF is_stationary(record.events, depths1)
            THEN trailing_candidate(records, i + 1,
                     IF current_start = None THEN Some(record.t) ELSE current_start,
                     depths1)
            ELSE trailing_candidate(records, i + 1, None,
                     IF current_start # None THEN << >> ELSE depths1)

\* a merge step that never merges
within_gap_never(last, interval) == FALSE

\* interval["start_t"] - last["end_t"] <= STUCK_GAP_S
within_gap(last, interval) == interval.start_t - last.end_t <= STUCK_GAP_S

RECURSIVE merge_intervals(_, _, _)
\* _find_stuck_intervals, the loop  for interval in intervals[1:]
merge_intervals(intervals, i, merged) ==
    IF i > Len(intervals) THEN merged
    ELSE LET last == merged[Len(merged)]
             interval == intervals[i]
         IN IF within_gap(last, interval)
            THEN merge_intervals(intervals, i + 1,
                    [merged EXCEPT ![Len(merged)] =
                        [start_t |-> last.start_t, end_t |-> interval.end_t,
                         duration_s |-> interval.end_t - last.start_t]])
            ELSE merge_intervals(intervals, i + 1, Append(merged, interval))

\* _find_stuck_intervals: records = sorted(index["by_time"].items(), ...)
sorted_records(index) ==
    LET ordered == SortedSeq(DOMAIN index.by_time)
    IN [i \in 1..Len(ordered) |-> index.by_time[ordered[i]]]

\* _find_stuck_intervals up to "Merge intervals with gaps": the intervals emitted
emitted_intervals(index) ==
    stationary_walk(sorted_records(index), 1, None, << >>, << >>, STUCK_MIN_S)

\* IndexerAgent._find_stuck_intervals
find_stuck_intervals(index) ==
    LET intervals == emitted_intervals(index)
    IN IF intervals = << >> THEN << >>
       ELSE merge_intervals(intervals, 2, <<intervals[1]>>)

\* IndexerAgent._compute_hazards
compute_hazards(index) ==
    [almost_crash_moments |-> find_almost_crashes(index),
     stuck_intervals |-> find_stuck_intervals(index)]

\* a build that starts from the counters of the persisted index
initial_index_from_cache(client_id) ==
    LET cached == read_index(indices, <<"index", client_id>>)
    IN [client_id |-> client_id, by_time |-> << >>, by_event |-> << >>,
        counters |-> IF cached = None THEN << >> ELSE cached[1].counters,
        by_class |-> IF cached = None THEN << >> ELSE cached[1].by_class,
        hazards |-> << >>, dropped_records |-> 0]

\* process_logs: "Initialize empty index"
initial_index(client_id) ==
    [client_id |-> client_id, by_time |-> << >>, by_event |-> << >>,
     counters |-> << >>, by_class |-> << >>, hazards |-> << >>, dropped_records |-> 0]

RECURSIVE index_records(_, _, _)
\* process_logs, the loop  for log_dict in log_records
index_records(index, log_records, i) ==
    IF i > Len(log_records) THEN index
    ELSE IF ~validate_record(record_of(log_records[i]))
    THEN index_records([index EXCEPT !.dropped_records = @ + 1], log_records, i + 1)
    ELSE IF add_raises(record_of(log_records[i]))
    THEN index_records([add_to_index(index, record_of(log_records[i]))
                           EXCEPT !.dropped_records = @ + 1], log_records, i + 1)
    ELSE index_records(add_to_index(index, record_of(log_records[i])), log_records, i + 1)

\* process_logs up to the hazards: the index of a fetched record list
build_index(client_id, log_records) ==
    LET index == index_records(initial_index(client_id), log_records, 1)
    IN [index EXCEPT !.hazards = compute_hazards(index)]

\* history: the build before this one, without its own history
prior_build ==
    IF last_build = None THEN None ELSE Some([last_build[1] EXCEPT !.prior = None])

\* IndexerAgent.process_logs: fetch, build, persist, return
process_logs(client_id, time_start, time_end, session_id) ==
    LET log_records == get_logs(client_id, session_id, time_start, time_end)
        index == build_index(client_id, log_records)
    IN /\ indices' = persist_index(indices, index_key(client_id, session_id), index)
       /\ last_build' = Some([client_id |-> client_id, time_start |-> time_start,
                              time_end |-> time_end, session_id |-> session_id,
                              log_records |-> log_records, index |-> index,
                              prior |-> prior_build])
       /\ UNCHANGED <<clock, client_windows, stuck_alerts, accident_alerts, alerts,
                      contacts, logs, ncalls, consumed, last_query,
                   threads, last_ingest>>

\* a build that persists what it has aggregated when the hazards fail
indices_after_raise_partial(table, key, partial, stage) ==
    IF stage = "compute_hazards" THEN persist_index(table, key, partial) ELSE table

\* table user_indices after a process_logs call that raised at a stage:
\* tools.persist_index is the last statement before the return, and save_index
\* closes its session without a commit when it raises, so nothing was written
indices_after_raise(table, key, partial, stage) == table

\* IndexerAgent.process_logs when the record-store read, _compute_hazards or
\* the save raises: nothing in process_logs catches it (the try/except of the
\* loop covers one record at a time), the caller gets the exception
process_logs_raising(client_id, time_start, time_end, session_id, stage) ==
    LET log_records == IF stage = "get_logs" THEN << >>
                       ELSE get_logs(client_id, session_id, time_start, time_end)
        partial == index_records(initial_index(client_id), log_records, 1)
    IN /\ stage \in {"get_logs", "compute_hazards", "persist_index"}
       /\ indices' = indices_after_raise(indices, index_key(client_id, session_id),
                                         partial, stage)
       /\ last_build' = Some([client_id |-> client_id, time_start |-> time_start,
                              time_end |-> time_end, session_id |-> session_id,
                              log_records |-> log_records, index |-> partial,
                              prior |-> prior_build, raised |-> stage])
       /\ UNCHANGED <<clock, client_windows, stuck_alerts, accident_alerts, alerts,
                      contacts, logs, ncalls, consumed, last_query, threads,
                      last_ingest>>

\* tools.save_log_to_db + DatabaseService.insert_log
save_log_to_db(log_record) ==
    /\ logs' = Append(logs, log_record)
    /\ UNCHANGED <<clock, client_windows, stuck_alerts, accident_alerts, alerts,
                   contacts, indices, ncalls, consumed, last_query,
                   last_build,
                   threads, last_ingest>>

\* app.py, ingest_log: required_fields
required_fields == {"client_id", "session_id", "t", "events", "confidence"}

\* ingest_log: for field in required_fields: if field not in data: return 400
ingest_accepts(data) == required_fields \subseteq DOMAIN data

\* app.py, POST /api/logs: the record is saved and handed to the watchdog when
\* the body has the required fields, and answered with 400 otherwise
ingest_log(data) ==
    IF ~ingest_accepts(data)
    THEN /\ last_ingest' = Some([code |-> 400, status |-> "error", data |-> data])
         /\ UNCHANGED <<clock, client_windows, stuck_alerts, accident_alerts, alerts,
                        contacts, logs, indices, ncalls, consumed, last_query,
                        last_build, threads>>
    ELSE /\ logs' = Append(logs, data)
         /\ watchdog_run(data)
         /\ last_ingest' = Some([code |-> 200, status |-> "success", data |-> data])
         /\ UNCHANGED <<clock, contacts, indices, last_query, last_build, threads>>

-----------------------------------------------------------------------------
(* query_agent.py *)

UpperCase == "ABCDEFGHIJKLMNOPQRSTUVWXYZ"
LowerCase == "abcdefghijklmnopqrstuvwxyz"

\* str.lower() of one character
LowerChar(c) ==
    IF \E i \in 1..Len(UpperCase) : SubSeq(UpperCase, i, i) = c
    THEN LET i == CHOOSE k \in 1..Len(UpperCase) : SubSeq(UpperCase, k, k) = c
         IN SubSeq(LowerCase, i, i)
    ELSE c

RECURSIVE Lower(_)
\* question.lower()
Lower(s) ==
    IF Len(s) = 0 THEN "" ELSE LowerChar(SubSeq(s, 1, 1)) \o Lower(SubSeq(s, 2, Len(s)))

\* a classification that tries the accident rule first
classify_intent_accident_first(question) ==
    LET q_lower == Lower(question)
    IN IF \E kw \in {"accident", "fell", "fall", "collision", "crashed", "impact"} :
              Contains(q_lower, kw)
       THEN "accident"
       ELSE IF \E kw \in {"almost crash", "near miss", "collision warning", "close call"} :
                  Contains(q_lower, kw)
       THEN "almost_crash"
       ELSE IF \E kw \in {"stuck", "not moving", "stationary"} : Contains(q_lower, kw)
       THEN IF \E kw \in {"interval", "when", "show"} : Contains(q_lower, kw)
            THEN "stuck_intervals" ELSE "stuck_minutes"
       ELSE "event_counts"

\* QueryAgent._classify_intent
classify_intent(question) ==
    LET q_lower == Lower(question)
    IN IF \E kw \in {"almost crash", "near miss", "collision warning", "close call"} :
              Contains(q_lower, kw)
       THEN "almost_crash"
       ELSE IF \E kw \in {"stuck", "not moving", "stationary"} : Contains(q_lower, kw)
       THEN IF \E kw \in {"interval", "when", "show"} : Contains(q_lower, kw)
            THEN "stuck_intervals" ELSE "stuck_minutes"
       ELSE IF \E kw \in {"accident", "fell", "fall", "collision", "crashed", "impact"} :
                  Contains(q_lower, kw)
       THEN "accident"
       ELSE "event_counts"

SECONDS_PER_DAY == 86400
DEFAULT_WINDOW_DAYS == 7

\* now.replace(hour=0, minute=0, second=0), as a timestamp
day_start(now) == now - (now % SECONDS_PER_DAY)

\* now.replace(hour=23, minute=59, second=59), as a timestamp
day_end(now) == day_start(now) + SECONDS_PER_DAY - 1

\* QueryAgent._parse_time_window, as the int timestamps handle_query passes on;
\* a start or end is None, a keyword <<"today">>, or an ISO time <<"iso", seconds>>
parse_time_window(start, end, now) ==
    LET end_dt == IF end = None \/ end[1] = "now" THEN now
                  ELSE IF end[1] = "today" THEN day_end(now)
                  ELSE end[2]
    IN IF start = None
       THEN [start |-> now - DEFAULT_WINDOW_DAYS * SECONDS_PER_DAY, end |-> end_dt]
       ELSE IF start[1] = "today"
       THEN [start |-> day_start(now),
             end |-> IF end = None \/ end[1] = "now" THEN day_end(now) ELSE end_dt]
       ELSE IF start[1] = "yesterday"
       THEN [start |-> day_start(now - SECONDS_PER_DAY),
             end |-> day_end(now - SECONDS_PER_DAY)]
       ELSE IF start[1] = "last_7d" \/ start[1] = "last_week"
       THEN [start |-> now - DEFAULT_WINDOW_DAYS * SECONDS_PER_DAY, end |-> end_dt]
       ELSE [start |-> start[2], end |-> end_dt]

\* QueryParams(): crash_near_m, stuck_min_s and conf_min default to the constants
default_params ==
    [crash_near_m |-> CRASH_NEAR_M, stuck_min_s |-> STUCK_MIN_S, conf_min |-> CONF_MIN]

\* datetime.fromtimestamp(t, tz=timezone.utc).isoformat(): a text of the time
isoformat(t) == <<"iso", t>>

\* a metric computed: its result and its samples
Computed(result, samples) == [raised |-> FALSE, result |-> result, samples |-> samples]

\* a metric whose computation raised TypeError
RaisedTypeError == [raised |-> TRUE, result |-> << >>, samples |-> << >>]

\* a near-miss filter that ignores the depth
moment_matches_any_depth(m, params) == m.confidence >= params.conf_min

\* _compute_almost_crash: the filter on a moment
moment_matches(m, params) ==
    /\ m.confidence >= params.conf_min
    /\ (m.free_ahead_m = None \/ m.free_ahead_m[1] <= params.crash_near_m)

\* QueryAgent._compute_almost_crash
compute_almost_crash(index, params) ==
    LET moments == index.hazards.almost_crash_moments
        filtered == SelectSeq(moments, LAMBDA m : moment_matches(m, params))
        first3 == Head_n(filtered, 3)
    IN Computed([count |-> Len(filtered)],
                [i \in 1..Len(first3) |->
                    [t |-> isoformat(first3[i].t),
                     free_ahead_m |-> first3[i].free_ahead_m,
                     confidence |-> first3[i].confidence,
                     events |-> first3[i].events, classes |-> first3[i].classes]])

RECURSIVE SumDurations(_)
\* sum(i["duration_s"] for i in filtered)
SumDurations(intervals) ==
    IF intervals = << >> THEN 0
    ELSE Head(intervals).duration_s + SumDurations(Tail(intervals))

\* the totals below 900 s that lie half way between two tenths of a minute and
\* that round(total_seconds / 60, 1) rounds up, the binary value of the
\* quotient being above the half
TiesRoundedUp ==
    {3, 27, 33, 39, 45, 63, 81, 93, 105, 111, 141, 147, 165, 171, 177,
     201, 207, 225, 231, 237, 249, 267, 279, 285, 297, 309, 327, 339,
     345, 357, 369, 387, 399, 405, 417, 429, 447, 459, 465, 477, 483,
     489, 513, 519, 525, 543, 549, 573, 579, 585, 603, 609, 633, 639,
     645, 663, 669, 693, 699, 705, 723, 729, 753, 759, 765, 783, 789,
     813, 819, 825, 843, 849, 873, 879, 885}

\* round(total_seconds / 60, 1), in tenths of a minute
round_minutes(total_seconds) ==
    LET tenths == total_seconds \div 6
        rest == total_seconds % 6
    IN IF rest < 3 THEN tenths
       ELSE IF rest > 3 THEN tenths + 1
       ELSE IF total_seconds \in TiesRoundedUp THEN tenths + 1 ELSE tenths

\* the samples of both stuck metrics: at most three intervals
interval_samples(intervals) ==
    [i \in 1..(IF Len(intervals) < 3 THEN Len(intervals) ELSE 3) |->
        [start |-> isoformat(intervals[i].start_t), end |-> isoformat(intervals[i].end_t),
         duration_s |-> intervals[i].duration_s]]

\* QueryAgent._compute_stuck_minutes
compute_stuck_minutes(index, params) ==
    LET intervals == index.hazards.stuck_intervals
        filtered == SelectSeq(intervals, LAMBDA i : i.duration_s >= params.stuck_min_s)
    IN Computed([minutes_tenths |-> round_minutes(SumDurations(filtered))],
                interval_samples(filtered))

\* QueryAgent._compute_stuck_intervals
compute_stuck_intervals(index, params) ==
    LET intervals == index.hazards.stuck_intervals
        filtered == SelectSeq(intervals, LAMBDA i : i.duration_s >= params.stuck_min_s)
    IN Computed([intervals |-> [i \in 1..Len(filtered) |->
                                   <<isoformat(filtered[i].start_t),
                                     isoformat(filtered[i].end_t),
                                     filtered[i].duration_s>>]],
                interval_samples(filtered))

RECURSIVE Digits(_)
\* str(n): the decimal digits of a natural number
Digits(n) == IF n < 10 THEN <<n>> ELSE Append(Digits(n \div 10), n % 10)

\* a < b on strings of digits: the order of sorted() on str keys
LexLess(a, b) ==
    \E i \in 1..(Len(a) + 1) :
        /\ \A k \in 1..(i - 1) : k <= Len(b) /\ a[k] = b[k]
        /\ \/ i > Len(a) /\ i <= Len(b)
           \/ i <= Len(a) /\ i <= Len(b) /\ a[i] < b[i]

RECURSIVE SortedByText(_)
\* sorted(S) of a set of numbers written as strings
SortedByText(S) ==
    IF S = {} THEN << >>
    ELSE LET least == CHOOSE x \in S : \A y \in S \ {x} : LexLess(Digits(x), Digits(y))
         IN <<least>> \o SortedByText(S \ {least})

\* sorted(index["by_time"].items(), key=lambda x: x[0]): the records in the
\* order of their keys, which are int in an index just built and str in one
\* read back from the JSON column
sorted_items(index, keys_are_str) ==
    LET times == {index.by_time[k].t : k \in DOMAIN index.by_time}
        ordered == IF keys_are_str THEN SortedByText(times) ELSE SortedSeq(times)
    IN [i \in 1..Len(ordered) |->
           CHOOSE rec \in {index.by_time[k] : k \in DOMAIN index.by_time} :
               rec.t = ordered[i]]

\* _compute_accident: if any(is_directional_event(e) for e in events2): break
movement_resumed(events) == has_movement(events)

RECURSIVE look_ahead(_, _, _, _, _)
\* _compute_accident pattern 2, the loop  for j in range(i + 1, len(records))
look_ahead(records, j, t, stop_found, no_proceed_duration) ==
    IF j > Len(records)
    THEN [stop_found |-> stop_found, no_proceed_duration |-> no_proceed_duration]
    ELSE LET t2 == records[j].t
             stop_found1 == stop_found \/ "stop" \in ToSet(records[j].events)
         IN IF t2 - t > ACCIDENT_PATTERN_WINDOW_S + ACCIDENT_NO_PROCEED_S
            THEN [stop_found |-> stop_found, no_proceed_duration |-> no_proceed_duration]
            ELSE IF stop_found1 /\ movement_resumed(records[j].events)
            THEN [stop_found |-> stop_found1, no_proceed_duration |-> no_proceed_duration]
            ELSE look_ahead(records, j + 1, t, stop_found1,
                            IF stop_found1 THEN t2 - t ELSE no_proceed_duration)

\* _compute_accident pattern 2: the tests an anchor record passes
accident_anchor(rec) ==
    /\ ToSet(rec.events) \cap OBSTACLE_EVENTS # {}
    /\ ~(rec.confidence < ACCIDENT_CONF)
    /\ ~(rec.free_ahead_m = None \/ rec.free_ahead_m[1] > ACCIDENT_DEPTH_M)

RECURSIVE accident_pattern2(_, _, _)
\* _compute_accident pattern 2, the loop over i; with str keys  t2 - t  raises
\* TypeError at the first record looked at after an anchor
accident_pattern2(records, i, keys_are_str) ==
    IF i > Len(records)
    THEN Computed([detected |-> FALSE, first_t |-> None, rationale |-> None], << >>)
    ELSE LET rec == records[i]
             ahead == look_ahead(records, i + 1, rec.t, FALSE, 0)
         IN IF ~accident_anchor(rec) THEN accident_pattern2(records, i + 1, keys_are_str)
            ELSE IF keys_are_str /\ i < Len(records) THEN RaisedTypeError
            ELSE IF ahead.stop_found /\ ahead.no_proceed_duration >= ACCIDENT_NO_PROCEED_S
            THEN Computed([detected |-> TRUE, first_t |-> Some(rec.t),
                           rationale |-> Some(Rationale("obstacle_stop", {},
                                                  rec.free_ahead_m[1],
                                                  ahead.no_proceed_duration, 0))],
                          <<[t |-> isoformat(rec.t), events |-> ToSet(rec.events),
                             free_ahead_m |-> rec.free_ahead_m,
                             confidence |-> rec.confidence]>>)
            ELSE accident_pattern2(records, i + 1, keys_are_str)

\* QueryAgent._compute_accident; with str keys datetime.fromtimestamp(t) raises
\* TypeError when pattern 1 builds its sample
compute_accident(index, keys_are_str) ==
    LET records == sorted_items(index, keys_are_str)
        direct == {i \in 1..Len(records) :
                      ToSet(records[i].events) \cap ACCIDENT_EVENTS # {}}
        first == records[SetMin(direct)]
    IN IF direct # {}
       THEN IF keys_are_str THEN RaisedTypeError
            ELSE Computed([detected |-> TRUE, first_t |-> Some(first.t),
                           rationale |-> Some(Rationale("direct",
                                   ToSet(first.events) \cap ACCIDENT_EVENTS, 0, 0, 0))],
                          <<[t |-> isoformat(first.t), events |-> ToSet(first.events),
                             confidence |-> first.confidence]>>)
       ELSE accident_pattern2(records, 1, keys_are_str)

RECURSIVE top_counts(_, _)
\* sorted(index["counters"].items(), key=count, reverse=True)[:n], by the counts
\* and the events that have each count (equal counts keep the order of the dict)
top_counts(counters, n) ==
    IF n = 0 \/ DOMAIN counters = {} THEN << >>
    ELSE LET most == SetMax({counters[e] : e \in DOMAIN counters})
             tied == {e \in DOMAIN counters : counters[e] = most}
             one == CHOOSE e \in tied : TRUE
         IN <<[count |-> most, event_among |-> tied]>>
            \o top_counts([e \in DOMAIN counters \ {one} |-> counters[e]], n - 1)

\* QueryAgent._compute_event_counts
compute_event_counts(index, params) ==
    Computed([by_event |-> index.counters, by_class |-> index.by_class],
             top_counts(index.counters, 3))

\* QueryAgent._compute_metric
compute_metric(metric_type, index, params, keys_are_str) ==
    IF metric_type = "almost_crash" THEN compute_almost_crash(index, params)
    ELSE IF metric_type = "stuck_minutes" THEN compute_stuck_minutes(index, params)
    ELSE IF metric_type = "stuck_intervals" THEN compute_stuck_intervals(index, params)
    ELSE IF metric_type = "accident" THEN compute_accident(index, keys_are_str)
    ELSE compute_event_counts(index, params)

\* an error text that tells whether the client has records
permission_error_with_existence(requester_id, client_id) ==
    <<"Unauthorized requester: ", requester_id,
      \E i \in 1..Len(logs) : logs[i].client_id = client_id>>

\* PermissionError(f"Unauthorized requester: {requester_id}"), by its parts
permission_error(requester_id, client_id) ==
    <<"Unauthorized requester: ", requester_id>>

\* QueryAgent.handle_query.  ops lists, in order, the store operations the call
\* made; params is None or a QueryParams; an index read from the cache has the
\* str keys of its JSON column, one just built has int keys
handle_query(requester_id, client_id, question, session_id, time_start, time_end, params) ==
    LET authorized == is_authorized(requester_id, client_id)
        time_window == parse_time_window(time_start, time_end, clock)
        query_params == IF params = None THEN default_params ELSE params[1]
        metric_type == classify_intent(question)
        key == index_key(client_id, session_id)
        cached == read_index(indices, key)
        miss == authorized /\ cached = None
        log_records == get_logs(client_id, session_id, Some(time_window.start),
                                Some(time_window.end))
        built == build_index(client_id, log_records)
        index == IF miss THEN built ELSE cached[1]
        metric == compute_metric(metric_type, index, query_params, ~miss)
        ops == IF miss THEN <<"is_authorized", "read_index", "get_logs", "save_index">>
               ELSE <<"is_authorized", "read_index">>
    IN /\ indices' = IF miss THEN persist_index(indices, key, built) ELSE indices
       /\ last_build' = IF miss
                        THEN Some([client_id |-> client_id,
                                   time_start |-> Some(time_window.start),
                                   time_end |-> Some(time_window.end),
                                   session_id |-> session_id,
                                   log_records |-> log_records, index |-> built,
                                   prior |-> prior_build])
                        ELSE last_build
       /\ last_query' =
            IF ~authorized
            THEN Some([requester_id |-> requester_id, client_id |-> client_id,
                       outcome |-> "PermissionError", ops |-> <<"is_authorized">>,
                       detail |-> Some(permission_error(requester_id, client_id)),
                       response |-> None])
            ELSE IF metric.raised
            THEN Some([requester_id |-> requester_id, client_id |-> client_id,
                       outcome |-> "TypeError", detail |-> None, question |-> question,
                       session_id |-> session_id,
                       ops |-> ops, index |-> index, response |-> None])
            ELSE Some([requester_id |-> requester_id, client_id |-> client_id,
                       outcome |-> "ok", detail |-> None, question |-> question,
                       session_id |-> session_id,
                       ops |-> ops,
                       response |-> Some([client_id |-> client_id,
                                          time_window |-> time_window,
                                          metric |-> metric_type,
                                          params |-> query_params,
                                          result |-> metric.result,
                                          samples |-> Head_n(metric.samples, 3),
                                          index |-> index])])
       /\ UNCHANGED <<clock, client_windows, stuck_alerts, accident_alerts, alerts,
                      contacts, logs, ncalls, consumed, threads, last_ingest>>

\* DatabaseService.save_index after  existing = query.first(): the update of the
\* row found, or the insert of a new row when none was found
write_index(table, existing, client_id, index_data, session_id, time_start, time_end) ==
    IF existing # 0
    THEN [table EXCEPT ![existing] =
             [@ EXCEPT !.index_data = json_index(index_data),
                       !.time_start = time_start, !.time_end = time_end]]
    ELSE Append(table, [client_id |-> client_id, session_id |-> session_id,
                        time_start |-> time_start, time_end |-> time_end,
                        index_data |-> json_index(index_data)])

\* The builds of two request threads interleave as well.  A build is cut where
\* save_index has read the existing row and has not yet committed its write.

\* IndexerAgent.process_logs down to  existing = query.first()  in save_index
begin_build(th, client_id, time_start, time_end, session_id) ==
    LET log_records == get_logs(client_id, session_id, time_start, time_end)
        index == build_index(client_id, log_records)
    IN /\ threads[th] = None
       /\ threads' = [threads EXCEPT ![th] =
                         Some([pc |-> "build", client_id |-> client_id,
                               time_start |-> time_start, time_end |-> time_end,
                               session_id |-> session_id, log_records |-> log_records,
                               index |-> index,
                               existing |-> first_row(indices, client_id, session_id)])]
       /\ UNCHANGED <<clock, client_windows, stuck_alerts, accident_alerts, alerts,
                      contacts, logs, indices, ncalls, consumed, last_query, last_build,
                      last_ingest>>

\* the rest of save_index: the update or the insert, and session.commit()
commit_build(th) ==
    LET build == threads[th][1]
        timestamps == DOMAIN build.index.by_time
    IN /\ threads[th] # None
       /\ threads[th][1].pc = "build"
       /\ indices' = write_index(indices, build.existing, build.client_id, build.index,
                                 build.session_id,
                                 IF timestamps # {} THEN Some(SetMin(timestamps)) ELSE None,
                                 IF timestamps # {} THEN Some(SetMax(timestamps)) ELSE None)
       /\ last_build' = Some([client_id |-> build.client_id,
                              time_start |-> build.time_start,
                              time_end |-> build.time_end,
                              session_id |-> build.session_id,
                              log_records |-> build.log_records, index |-> build.index,
                              prior |-> prior_build])
       /\ threads' = [threads EXCEPT ![th] = None]
       /\ UNCHANGED <<clock, client_windows, stuck_alerts, accident_alerts, alerts,
                      contacts, logs, ncalls, consumed, last_query, last_ingest>>

\* tools.add_authorized_contact + DatabaseService.add_emergency_contact
add_authorized_contact(client_id, contact_id) ==
    LET hits == {i \in 1..Len(contacts) :
                    contacts[i].client_id = client_id /\ contacts[i].contact_id = contact_id}
        existing == IF hits = {} THEN 0 ELSE CHOOSE i \in hits : \A j \in hits : i <= j
    IN /\ contacts' = IF existing # 0
                      THEN [contacts EXCEPT ![existing].authorized = 1]
                      ELSE Append(contacts, [client_id |-> client_id,
                                             contact_id |-> contact_id, authorized |-> 1])
       /\ UNCHANGED <<clock, client_windows, stuck_alerts, accident_alerts, alerts,
                      logs, indices, ncalls, consumed, last_query, last_build,
                   threads, last_ingest>>

-----------------------------------------------------------------------------
(* Inputs and initial state *)

Clients == {"test_client", "alice"}

\* the threads of the server that handle requests at the same time
Threads == {"t1", "t2"}

\* the wall clock when the service starts
StartClock == 10000
\* process_record calls in one run
MaxRecords == 4

\* the record shapes the telemetry app sends: events, classes, confidence,
\* free_ahead_m; t_type and events_type are the Python types of t and events
Shape(name) ==
    LET base == [events |-> <<"stop">>, classes |-> None, confidence |-> 90,
                 free_ahead_m |-> None, t_type |-> "int", events_type |-> "list"]
        obstacle == [base EXCEPT !.events = <<"obstacle_center">>, !.confidence = 80,
                                 !.classes = Some(<<"person">>)]
    IN CASE name = "stop" -> base
         [] name = "stop_far" -> [base EXCEPT !.free_ahead_m = Some(100)]
         [] name = "proceed" -> [base EXCEPT !.events = <<"proceed">>]
         [] name = "stop_veer" -> [base EXCEPT !.events = <<"stop", "veer_left_15">>]
         [] name = "lookalike" ->
               [base EXCEPT !.events = <<"stopped", "fallen", "obstacle_closer">>,
                            !.confidence = 80]
         [] name = "fall" -> [base EXCEPT !.events = <<"fall">>]
         [] name = "near_fall" -> [base EXCEPT !.events = <<"near_fall">>]
         [] name = "impact_stop" -> [base EXCEPT !.events = <<"stop", "impact", "collision">>]
         [] name = "veer" ->
               [base EXCEPT !.events = <<"veer_left_15", "veer_right", "veer_left">>]
         [] name = "obstacle" -> [obstacle EXCEPT !.free_ahead_m = Some(30)]
         [] name = "obstacle_touch" ->
               [obstacle EXCEPT !.free_ahead_m = Some(0),
                                !.events = <<"obstacle_close", "obstacle_center">>]
         [] name = "obstacle_near" -> [obstacle EXCEPT !.free_ahead_m = Some(50)]
         [] name = "obstacle_nodepth" -> [obstacle EXCEPT !.classes = Some(<<"car", "car">>)]
         [] name = "obstacle_scored" ->
               [obstacle EXCEPT !.free_ahead_m = Some(30),
                                !.classes = Some(<<"car", NestedLabel>>)]
         [] name = "bad_confidence" ->
               [obstacle EXCEPT !.free_ahead_m = Some(30), !.confidence = 150]
         [] name = "bad_t" -> [base EXCEPT !.t_type = "float"]
         [] name = "bad_events" -> [base EXCEPT !.events_type = "str"]

\* a LogRecord as the app sends it, as ingest hands it to the watchdog and as
\* table log_records returns it
LogRecord(client_id, shape, t) ==
    [client_id |-> client_id, session_id |-> "s1", t |-> t, t_type |-> Shape(shape).t_type,
     events |-> Shape(shape).events, events_type |-> Shape(shape).events_type,
     classes |-> Shape(shape).classes, confidence |-> Shape(shape).confidence,
     free_ahead_m |-> Shape(shape).free_ahead_m]

\* WatchdogAgent.__init__ and empty tables, but for one authorized contact of alice
Init ==
    /\ clock = StartClock
    /\ client_windows = << >>
    /\ stuck_alerts = << >>
    /\ accident_alerts = << >>
    /\ alerts = << >>
    /\ contacts = <<[client_id |-> "alice", contact_id |-> "carol", authorized |-> 1]>>
    /\ logs = << >>
    /\ indices = << >>
    /\ ncalls = 0
    /\ consumed = [c \in Clients |-> << >>]
    /\ last_query = None
    /\ last_build = None
    /\ threads = [th \in Threads |-> None]
    /\ last_ingest = None

\* the watchdog fed records stamped with the wall clock; feeds are
\* <<client, shape>> pairs and offsets the seconds after StartClock the clock shows
\* the state after construction over a contact store without rows
InitNoContacts ==
    /\ clock = StartClock
    /\ client_windows = << >>
    /\ stuck_alerts = << >>
    /\ accident_alerts = << >>
    /\ alerts = << >>
    /\ contacts = << >>
    /\ logs = << >>
    /\ indices = << >>
    /\ ncalls = 0
    /\ consumed = [c \in Clients |-> << >>]
    /\ last_query = None
    /\ last_build = None
    /\ threads = [th \in Threads |-> None]
    /\ last_ingest = None

WatchdogNext(feeds, offsets) ==
    \/ \E f \in feeds :
          ncalls < MaxRecords /\ process_record(LogRecord(f[1], f[2], clock))
    \/ \E f \in feeds : clear_client_state(f[1])
    \/ \E d \in offsets : Tick(StartClock + d)

Next == WatchdogNext(Clients \X {"stop", "proceed"}, {300, 600, 1200, 1300})

Spec == Init /\ [][Next]_vars

\* accidents of all three patterns, 35 s, 155 s and two hours after the first record
AccidentFeeds ==
    ({"test_client"} \X {"fall", "obstacle", "stop", "veer"}) \cup {<<"alice", "fall">>}

SpecAccident == Init /\ [][WatchdogNext(AccidentFeeds, {35, 155, 7200})]_vars

\* a fall, then two hours later an obstacle, a stop and a step forward within 35 s
SpecResume ==
    Init /\ [][WatchdogNext({"test_client"} \X {"fall", "obstacle", "stop", "proceed"},
                            {7168, 7199, 7200})]_vars

\* stops, steps forward and obstacle sightings with a steady depth, seconds apart
SpecDepthRule ==
    Init /\ [][WatchdogNext({"test_client"} \X {"stop", "obstacle", "proceed"},
                            {1, 2, 3})]_vars

\* POST /api/logs requests in a run with tags of every category
MaxTagRecords == 3

\* alice's records arrive through ingest, five minutes apart or at once, with
\* stop, with stop and a veer (as second record), with tags that only resemble
\* stop, fall and obstacle_close (after the first), and with a fall (as first);
\* her index is built and carol asks whether she fell
TagsNext ==
    \/ \E s \in {"stop", "stop_veer", "lookalike", "fall"} :
          /\ Len(logs) < MaxTagRecords
          /\ s = "fall" => logs = << >>
          /\ s = "lookalike" => logs # << >>
          /\ s = "stop_veer" => Len(logs) = 1
          /\ ingest_log(LogRecord("alice", s, clock))
    \/ Tick(StartClock + 300)
    \/ process_logs("alice", None, None, None)
    \/ handle_query("carol", "alice", "did she fall?", None, None, None, None)

SpecTags == Init /\ [][TagsNext]_vars

\* POST /api/logs requests in a run with bodies of every kind
MaxIngest == 3

\* a request body without the field confidence
WithoutConfidence(data) == [f \in DOMAIN data \ {"confidence"} |-> data[f]]

\* the bodies posted: valid records, records that break a record invariant
\* (confidence 1.5, a float t, events that are no list) and a body that lacks
\* a required field
IngestNext ==
    \/ \E s \in {"stop", "bad_confidence", "bad_t", "bad_events"} :
          /\ Len(logs) < MaxIngest
          /\ ingest_log(LogRecord("test_client", s, clock))
    \/ ingest_log(WithoutConfidence(LogRecord("test_client", "stop", clock)))
    \/ Tick(StartClock + 300)

SpecIngest == Init /\ [][IngestNext]_vars

\* two clients who stand still and fall, five minutes apart, and whose state is cleared
SpecShards == Init /\ [][WatchdogNext(Clients \X {"stop", "fall"}, {300})]_vars

\* one client who stands still after an impact, five minutes apart, and whose
\* state is cleared
SpecClear ==
    Init /\ [][WatchdogNext({"test_client"} \X {"stop", "impact_stop"}, {300, 600})]_vars

\* alice, who has no contact anywhere, standing still after an impact
SpecNoContacts ==
    InitNoContacts /\ [][WatchdogNext({"alice"} \X {"stop", "impact_stop"}, {300, 600, 7200})]_vars

\* process_record calls in a run that overfills one window
MaxFill == 102

\* one client's window filled past its capacity; the app's records arrive in
\* order, one second apart, the last of them stamped with the current second
WindowNext ==
    \/ /\ ncalls < MaxFill
       /\ process_record(LogRecord("test_client", "proceed", clock - (MaxFill - ncalls)))
    \/ clear_client_state("test_client")

SpecWindow == Init /\ [][WindowNext]_vars

\* one client whose records arrive on time or five minutes late
LateNext ==
    \/ \E s \in {"stop", "proceed"}, lag \in {0, 300} :
          ncalls < MaxRecords /\ process_record(LogRecord("test_client", s, clock - lag))
    \/ clear_client_state("test_client")
    \/ \E d \in {300, 900} : Tick(StartClock + d)

SpecLate == Init /\ [][LateNext]_vars

\* one client reporting accident tags, alone or next to other tags, and a tag
\* that only contains one
SpecDirect ==
    Init /\ [][WatchdogNext({"test_client"} \X {"fall", "near_fall", "impact_stop", "stop"},
                            {7199, 7200})]_vars

\* process_record calls in a run with failing notifications
MaxFailRecords == 3

\* a client with two contacts whose notifications may fail: records with stop,
\* and with stop, impact and collision, five minutes apart
FailureNext ==
    \/ \E s \in {"stop", "impact_stop"} :
          ncalls < MaxFailRecords /\ process_record(LogRecord("alice", s, clock))
    \/ \E s \in {"stop", "impact_stop"}, phase \in {"stuck", "accident"},
          fail_at \in 1..2, saved \in BOOLEAN :
          /\ ncalls < MaxFailRecords
          /\ process_record_raising(LogRecord("alice", s, clock), phase, fail_at, saved)
    \/ add_authorized_contact("alice", "dave")
    \/ \E d \in {300, 600} : Tick(StartClock + d)

SpecFailure == Init /\ [][FailureNext]_vars

\* process_record calls in a run with two request threads
MaxConcurrent == 3

\* records of one client arriving in two requests at a time
ConcurrentNext ==
    \/ \E th \in Threads, s \in {"stop", "fall"} :
          /\ ncalls < MaxConcurrent
          /\ begin_record(th, LogRecord("test_client", s, clock))
    \/ \E th \in Threads : finish_stuck(th)
    \/ \E th \in Threads : finish_accident(th)
    \/ \E d \in {300, 900} : Tick(StartClock + d)

SpecConcurrent == Init /\ [][ConcurrentNext]_vars

\* rows in table log_records in a run with two building threads
MaxBuildLogs == 2

\* client-wide builds of one client in two requests at a time, while records arrive
BuildsNext ==
    \/ \E s \in {"obstacle", "obstacle_touch"}, t \in {100, 226} :
          /\ Len(logs) < MaxBuildLogs
          /\ logs # << >> => t > logs[Len(logs)].t
          /\ save_log_to_db(LogRecord("test_client", s, t))
    \/ \E th \in Threads : begin_build(th, "test_client", None, None, None)
    \/ \E th \in Threads : commit_build(th)

SpecBuilds == Init /\ [][BuildsNext]_vars

\* rows in table log_records in one run
MaxLogs == 3

\* records stored in timestamp order, at most max of them, and index builds on request
IndexNext(feeds, times, builds, max) ==
    \/ \E f \in feeds, t \in times :
          /\ Len(logs) < max
          /\ logs # << >> => t > logs[Len(logs)].t
          /\ save_log_to_db(LogRecord(f[1], f[2], t))
    \/ \E b \in builds : process_logs(b[1], b[2], b[3], b[4])

IndexFeeds ==
    {"test_client"} \X {"obstacle", "obstacle_touch", "obstacle_nodepth",
                        "bad_confidence", "bad_t", "bad_events"}

IndexBuilds ==
    {<<"test_client", None, None, None>>,
     <<"test_client", None, Some(106), Some("s1")>>}

SpecIndex == Init /\ [][IndexNext(IndexFeeds, {100, 103, 106, 226}, IndexBuilds, MaxLogs)]_vars

\* client-wide builds of one client that complete or raise, while records arrive
IndexFailNext ==
    \/ \E s \in {"obstacle", "bad_confidence"}, t \in {100, 103, 226} :
          /\ Len(logs) < MaxLogs
          /\ logs # << >> => t > logs[Len(logs)].t
          /\ save_log_to_db(LogRecord("test_client", s, t))
    \/ process_logs("test_client", None, None, None)
    \/ \E stage \in {"get_logs", "compute_hazards", "persist_index"} :
          process_logs_raising("test_client", None, None, None, stage)

SpecIndexFail == Init /\ [][IndexFailNext]_vars

\* rows in table log_records in a run with several stationary stretches
MaxStuckLogs == 5

\* stops and moves of one client, two minutes and a few seconds apart
SpecStuckIdx ==
    Init /\ [][IndexNext({"test_client"} \X {"stop", "proceed"},
                         {100, 220, 225, 230, 235, 350, 355},
                         {<<"test_client", None, None, None>>}, MaxStuckLogs)]_vars

\* rows in table log_records in a run of obstacle sightings
MaxChainLogs == 4

\* obstacle sightings and stops of one client, two, three and many seconds apart
SpecChain ==
    Init /\ [][IndexNext({"test_client"} \X {"obstacle_near", "stop"},
                         {100, 102, 105, 200},
                         {<<"test_client", None, None, None>>}, MaxChainLogs)]_vars

\* the last timestamp of a run of records ten seconds apart
MaxRunT == 150

\* records of one client every 10 s from t = 0, standing still with 1.0 m ahead
\* but for a step forward at 20 or 130, and index builds on request
StuckRunNext ==
    \/ \E s \in {"stop_far", "proceed"} :
          LET t == 10 * Len(logs)
          IN /\ t <= MaxRunT
             /\ s = "proceed" => t \in {20, 130}
             /\ save_log_to_db(LogRecord("test_client", s, t))
    \/ process_logs("test_client", None, None, None)

SpecStuckRun == Init /\ [][StuckRunNext]_vars

\* rows in table log_records while the planner is asked about accidents
MaxPlannerLogs == 3

\* alice meets an obstacle, stops, falls or walks on, and carol asks whether
\* she had an accident
PlannerNext ==
    \/ \E s \in {"obstacle", "stop", "proceed", "fall"}, t \in {0, 3, 35} :
          /\ Len(logs) < MaxPlannerLogs
          /\ logs # << >> => t > logs[Len(logs)].t
          /\ save_log_to_db(LogRecord("alice", s, t))
    \/ handle_query("carol", "alice", "did she fall?", None, None, None, None)

SpecPlanner == Init /\ [][PlannerNext]_vars

\* rows in table log_records while the planner is asked with parameters
MaxParamLogs == 4

\* the parameters a caller of handle_query passes: none, a nearer crash
\* distance, a higher confidence
QueryParamsSent ==
    {None,
     Some([crash_near_m |-> 20, stuck_min_s |-> STUCK_MIN_S, conf_min |-> CONF_MIN]),
     Some([crash_near_m |-> CRASH_NEAR_M, stuck_min_s |-> STUCK_MIN_S, conf_min |-> 90])}

\* alice meets obstacles every 10 s, the first two with or without a depth
\* reading and the later ones without, and carol asks for each metric with
\* each set of parameters
ParamsNext ==
    \/ \E s \in {"obstacle", "obstacle_nodepth"} :
          /\ Len(logs) < MaxParamLogs
          /\ s = "obstacle" => Len(logs) < 2
          /\ save_log_to_db(LogRecord("alice", s, 100 + 10 * Len(logs)))
    \/ \E q \in {"near miss", "stuck", "when stuck", "did she fall?", "top events"},
          params \in QueryParamsSent :
          handle_query("carol", "alice", q, None, None, None, params)

SpecParams == Init /\ [][ParamsNext]_vars

\* rows in table log_records in a run of builds with time bounds
MaxBoundLogs == 3

\* the builds requested with both time bounds, with and without a session
BoundBuilds ==
    {<<"test_client", Some(103), Some(226), None>>,
     <<"test_client", Some(100), Some(106), Some("s1")>>,
     <<"test_client", Some(100), Some(227), Some("s2")>>}

\* records of two clients, valid and not, and builds of one client with time bounds
SpecBounds ==
    Init /\ [][IndexNext({"test_client", "alice"} \X {"obstacle", "bad_confidence"},
                         {100, 103, 106, 226}, BoundBuilds, MaxBoundLogs)]_vars

\* rows in table log_records in a run with records that share a timestamp
MaxSameTLogs == 3

\* records of one client, some with the timestamp of the record before, with
\* and without classes, one with confidence 1.5, and index builds on request
SameTNext ==
    \/ \E s \in {"obstacle", "obstacle_nodepth", "stop", "bad_confidence"}, t \in {100, 103} :
          /\ Len(logs) < MaxSameTLogs
          /\ logs # << >> => t >= logs[Len(logs)].t
          /\ save_log_to_db(LogRecord("test_client", s, t))
    \/ process_logs("test_client", None, None, None)

SpecSameT == Init /\ [][SameTNext]_vars

Requesters == {"carol", "bob"}

Questions == {"Did he FALL?", "stuck"}

MaxQueryLogs == 2

\* the phrases questions are made of, in mixed case: of the almost-crash rule,
\* of the stuck rule, its modifiers, of the accident rule, and of no rule
Phrases ==
    {"Collision Warning", "NEAR miss", "Stuck", "not Moving", "WHEN", "Show",
     "did he Fall", "impact", "top events"}

\* words in one question
MaxPhrases == 2

\* the questions asked: one phrase, or two in either order
PhraseSeqs == UNION {[1..n -> Phrases] : n \in 1..MaxPhrases}

RECURSIVE Join(_)
\* " ".join(phrases)
Join(phrases) ==
    IF Len(phrases) = 1 THEN phrases[1]
    ELSE phrases[1] \o " " \o Join(Tail(phrases))

\* carol asks about alice in many wordings, before and after alice's first record
IntentNext ==
    \/ /\ logs = << >>
       /\ save_log_to_db(LogRecord("alice", "stop", 100))
    \/ \E phrases \in PhraseSeqs :
          handle_query("carol", "alice", Join(phrases), None, None, None, None)

SpecIntent == Init /\ [][IntentNext]_vars

\* carol asks about alice, with and without a session, while alice's records arrive
AcquireNext ==
    \/ \E s \in {"stop", "obstacle"}, t \in {100, 226} :
          /\ Len(logs) < MaxQueryLogs
          /\ logs # << >> => t > logs[Len(logs)].t
          /\ save_log_to_db(LogRecord("alice", s, t))
    \/ \E q \in {"stuck", "near miss"}, session_id \in {None, Some("s1")} :
          handle_query("carol", "alice", q, session_id, None, None, None)

SpecAcquire == Init /\ [][AcquireNext]_vars

\* carol asks about alice, for the default window and for yesterday, while
\* alice's records arrive and indices are built on request
MaxStaleLogs == 2

StaleNext ==
    \/ \E t \in {100, 226} :
          /\ Len(logs) < MaxStaleLogs
          /\ logs # << >> => t > logs[Len(logs)].t
          /\ save_log_to_db(LogRecord("alice", "stop", t))
    \/ \E session_id \in {None, Some("s1")} : process_logs("alice", None, None, session_id)
    \/ \E q \in Questions, session_id \in {None, Some("s1")},
          time_start \in {None, <<"yesterday">>} :
          handle_query("carol", "alice", q, session_id, time_start, None, None)

SpecStale == Init /\ [][StaleNext]_vars

\* builds over records of which some fail validation and some carry a class
\* given with its score
MaxDropLogs == 3

SpecDropped ==
    Init /\ [][IndexNext({"test_client"} \X {"obstacle", "obstacle_scored", "bad_confidence"},
                         {100, 103, 226}, {<<"test_client", None, None, None>>},
                         MaxDropLogs)]_vars

\* the planner queried while records arrive, indices are built and a contact is added
QueryNext ==
    \/ \E c \in Clients, t \in {100, 226} :
          /\ Len(logs) < MaxQueryLogs
          /\ logs # << >> => t > logs[Len(logs)].t
          /\ save_log_to_db(LogRecord(c, "stop", t))
    \/ \E c \in Clients : process_logs(c, None, None, None)
    \/ \E r \in Requesters, c \in Clients, q \in Questions :
          handle_query(r, c, q, None, None, None, None)
    \/ add_authorized_contact("test_client", "bob")

SpecQuery == Init /\ [][QueryNext]_vars

-----------------------------------------------------------------------------
(* Properties of the indexer, checked under SpecIndex *)

\* the index the last build returned, and what it was built from
BuiltIndex == last_build[1].index
FetchedRecords == last_build[1].log_records
BuiltCandidates == candidates_of(BuiltIndex, CRASH_NEAR_M, CONF_MIN)
BuiltMoments == BuiltIndex.hazards.almost_crash_moments

\* a depth as the specification orders it: a missing depth is above every depth
SpecDepth(x) == IF x.free_ahead_m = None THEN 1000000 ELSE x.free_ahead_m[1]

\* a and b belong to one merged group: every two neighbours between them are
\* at most MERGE_WINDOW_S apart (candidates is in ascending t)
OneGroup(candidates, a, b) ==
    \A i \in 1..(Len(candidates) - 1) :
        (/\ candidates[i].t >= (IF a.t < b.t THEN a.t ELSE b.t)
         /\ candidates[i + 1].t <= (IF a.t < b.t THEN b.t ELSE a.t))
        => candidates[i + 1].t - candidates[i].t <= MERGE_WINDOW_S

\* C4: the representative of every merged near-miss group has a free_ahead_m no
\* larger than that of any candidate of its group, a missing depth counting as
\* +infinity.  The code violates it: a depth of 0.0 is ordered as 999.
C4_RepresentativeMinimisesDepth ==
    last_build # None =>
        \A k \in 1..Len(BuiltMoments), i \in 1..Len(BuiltCandidates) :
            OneGroup(BuiltCandidates, BuiltMoments[k], BuiltCandidates[i])
            => SpecDepth(BuiltMoments[k]) <= SpecDepth(BuiltCandidates[i])

\* the record invariants of the specification, stated on a fetched record
RecordInvariant(log_dict) ==
    /\ log_dict.t_type = "int"
    /\ log_dict.events_type = "list"
    /\ log_dict.confidence \in 0..100

RECURSIVE Occurrences(_, _, _)
\* how often event e occurs in the records of log_records[i..] that keep the invariants
Occurrences(log_records, e, i) ==
    IF i > Len(log_records) THEN 0
    ELSE (IF RecordInvariant(log_records[i]) THEN Count(log_records[i].events, e) ELSE 0)
         + Occurrences(log_records, e, i + 1)

FetchedEvents == UNION {ToSet(FetchedRecords[i].events) : i \in 1..Len(FetchedRecords)}

\* C6: a build drops exactly the fetched records that break a record invariant
\* (confidence outside [0,1], non-integer t, events not a list), counts each of
\* them once in dropped_records, and indexes all the others.
C6_InvalidRecordsDropped ==
    last_build # None =>
        LET valid == {i \in 1..Len(FetchedRecords) : RecordInvariant(FetchedRecords[i])}
        IN /\ BuiltIndex.dropped_records = Len(FetchedRecords) - Cardinality(valid)
           /\ DOMAIN BuiltIndex.by_time = {FetchedRecords[i].t : i \in valid}
           /\ \A e \in FetchedEvents :
                 Get(BuiltIndex.counters, e, 0) = Occurrences(FetchedRecords, e, 1)

\* C6 witness: a build met a record with confidence 1.5 and indexed a later one
C6_Witness ==
    /\ last_build # None
    /\ \E i, j \in 1..Len(FetchedRecords) :
          /\ i < j
          /\ FetchedRecords[i].confidence > 100
          /\ RecordInvariant(FetchedRecords[j])
          /\ FetchedRecords[j].t \in DOMAIN BuiltIndex.by_time
    /\ BuiltIndex.dropped_records >= 1

\* the build before the last one was over the same client, session, time bounds
\* and record set
SameBuildTwice ==
    /\ last_build # None
    /\ last_build[1].prior # None
    /\ LET a == last_build[1].prior[1]
           b == last_build[1]
       IN /\ a.client_id = b.client_id /\ a.session_id = b.session_id
          /\ a.time_start = b.time_start /\ a.time_end = b.time_end
          /\ a.log_records = b.log_records

C8_MergeIdempotent ==
    last_build # None => merge_candidates(BuiltMoments) = BuiltMoments

\* C8 witness: a build merged three candidates into two moments
C8_Witness ==
    /\ last_build # None
    /\ Len(BuiltCandidates) = 3
    /\ Len(BuiltMoments) = 2

-----------------------------------------------------------------------------
(* Properties of the watchdog *)

\* whether the call of a consumed entry sent an alert of the given type
Sent(entry, type) == \E k \in 1..Len(entry.emitted) : entry.emitted[k].type = type

\* the time of the client's latest alert of a type before its call j: None if none
PreviousAlert(c, j, type) ==
    LET before == {i \in 1..(j - 1) : Sent(consumed[c][i], type)}
    IN IF before = {} THEN None ELSE Some(consumed[c][SetMax(before)].now)

\* C1: in a run of process_record calls, a stuck condition detected after a
\* client's previous stuck alert is notified exactly when at least 900 s of wall
\* clock have passed since that alert; so two stuck alerts of a client are at
\* least 900 s apart.
C1_StuckDebounce ==
    \A c \in Clients : \A j \in 1..Len(consumed[c]) :
        LET entry == consumed[c][j]
            previous == PreviousAlert(c, j, "stuck_alert")
        IN /\ Sent(entry, "stuck_alert") => entry.stuck_detected
           /\ (entry.stuck_detected /\ previous # None)
                 => (Sent(entry, "stuck_alert") <=> entry.now - previous[1] >= 900)

\* C1 witness: a stuck alert, a stuck condition 300 s later that is not
\* notified, and a second stuck alert 900 s after the first
C1_Witness ==
    \E c \in Clients : \E i, j, k \in 1..Len(consumed[c]) :
        /\ i < j /\ j < k
        /\ Sent(consumed[c][i], "stuck_alert")
        /\ consumed[c][j].stuck_detected /\ ~Sent(consumed[c][j], "stuck_alert")
        /\ consumed[c][j].now - consumed[c][i].now = 300
        /\ Sent(consumed[c][k], "stuck_alert")
        /\ consumed[c][k].now - consumed[c][i].now = 900

\* the accident stamp a client must carry: the time of its latest accident alert
ExpectedAccidentStamp(c) ==
    LET last == PreviousAlert(c, Len(consumed[c]) + 1, "accident_alert")
    IN IF last = None THEN 0 ELSE last[1]

\* C2: whatever the pattern, an accident found less than 7200 s after the
\* client's previous accident alert sends nothing and leaves last_accident_alert
\* as it was, and one found later is sent; so two accident alerts of a client
\* are at least 7200 s apart.
C2_AccidentDebounce ==
    \A c \in Clients :
        /\ last_accident_alert(c) = ExpectedAccidentStamp(c)
        /\ \A j \in 1..Len(consumed[c]) :
              LET entry == consumed[c][j]
                  previous == PreviousAlert(c, j, "accident_alert")
              IN /\ Sent(entry, "accident_alert") => entry.pattern # "none"
                 /\ (entry.pattern # "none" /\ previous # None)
                       => (Sent(entry, "accident_alert")
                              <=> entry.now - previous[1] >= 7200)

\* an accident of the given pattern was found and not notified
Suppressed(c, pattern) ==
    \E j \in 1..Len(consumed[c]) :
        /\ consumed[c][j].pattern = pattern
        /\ ~Sent(consumed[c][j], "accident_alert")
        /\ PreviousAlert(c, j, "accident_alert") # None

\* C2 witness: after an accident alert, an obstacle-stop-no-proceed accident of
\* the same client is found and suppressed
C2_Witness == \E c \in Clients : Suppressed(c, "obstacle_stop")

\* reachable as well: a suppressed direct accident and a suppressed veer surge,
\* and a second accident alert exactly 7200 s after the first
C2_DirectSuppressed == \E c \in Clients : Suppressed(c, "direct")
C2_VeerSuppressed == \E c \in Clients : Suppressed(c, "veer_surge")
C2_SecondAlert ==
    \E c \in Clients : \E i, j \in 1..Len(consumed[c]) :
        /\ i < j
        /\ Sent(consumed[c][i], "accident_alert") /\ Sent(consumed[c][j], "accident_alert")
        /\ consumed[c][j].now - consumed[c][i].now = 7200

RECURSIVE Replay(_, _, _, _, _)
\* the alerts a watchdog that has seen nothing of any other client sends for
\* entries[i..], given the window and the stamps the earlier entries left
Replay(entries, i, window, stuck_stamp, accident_stamp) ==
    IF i > Len(entries) THEN << >>
    ELSE LET record == entries[i].record
             now == entries[i].now
             window1 == deque_append(window, record)
             stuck == check_stuck(window1, stuck_stamp, now)
             acc == check_accident(window1, record)
             acc_send == acc.pattern # "none" /\ ~accident_debounced(now, accident_stamp)
             out == (IF stuck.send
                     THEN <<StuckAlert(record.client_id, now, stuck.since)>> ELSE << >>)
                    \o (IF acc_send
                        THEN <<AccidentAlert(record.client_id, acc.t, acc.rationale)>>
                        ELSE << >>)
         IN <<out>> \o Replay(entries, i + 1, window1,
                              IF stuck.send THEN now ELSE stuck_stamp,
                              IF acc_send THEN now ELSE accident_stamp)

\* the rows of table alerts the client's consumed calls inserted, as payloads
AlertStream(c) ==
    LET calls == {consumed[c][i].call : i \in 1..Len(consumed[c])}
        rows == SelectSeq(alerts, LAMBDA r : r.client_id = c /\ r.call \in calls)
    IN [k \in 1..Len(rows) |->
          [type |-> rows[k].alert_type, client_id |-> rows[k].client_id, t |-> rows[k].t,
           rationale |-> rows[k].rationale, since |-> rows[k].since]]

RECURSIVE Flatten(_)
Flatten(seqs) == IF seqs = << >> THEN << >> ELSE Head(seqs) \o Flatten(Tail(seqs))

\* C9: the alerts sent for a client are determined by that client's records and
\* the times they were processed at, whatever was fed for other clients in
\* between, and they reach table alerts in the order the records were consumed.
C9_AlertsFunctionOfRecords ==
    \A c \in Clients :
        LET expected == Replay(consumed[c], 1, << >>, 0, 0)
        IN /\ \A i \in 1..Len(consumed[c]) : consumed[c][i].emitted = expected[i]
           /\ AlertStream(c) = Flatten(expected)

\* C9 witness: two clients fed in turn, each with a stuck alert of its own
C9_Witness ==
    /\ \A c \in Clients : \E i \in 1..Len(consumed[c]) : Sent(consumed[c][i], "stuck_alert")
    /\ \E i \in 1..Len(consumed["alice"]), j \in 1..Len(consumed["test_client"]) :
          /\ consumed["alice"][i].call < consumed["test_client"][j].call
          /\ \E k \in 1..Len(consumed["alice"]) :
                consumed["test_client"][j].call < consumed["alice"][k].call

\* the records of a client's consumed calls, in order
ConsumedRecords(c) == [i \in 1..Len(consumed[c]) |-> consumed[c][i].record]

\* C10: a client's window holds at most 100 records: the most recently
\* processed ones since its last clear, in arrival order.
C10_WindowBound ==
    \A c \in Clients :
        LET window == Get(client_windows, c, << >>)
        IN /\ Len(window) <= 100
           /\ window = Tail_n(ConsumedRecords(c), 100)

\* C10 witness: more than 100 records went into one window, so the oldest is gone
C10_Witness ==
    \E c \in Clients :
        /\ Len(consumed[c]) > 100
        /\ Len(client_windows[c]) = 100
        /\ client_windows[c][1] = consumed[c][Len(consumed[c]) - 99].record

-----------------------------------------------------------------------------
(* Properties of the stuck intervals, checked under SpecStuckIdx *)

BuiltIntervals == BuiltIndex.hazards.stuck_intervals

\* C5: the stuck_intervals of a built index are in ascending start_t, do not
\* overlap, each lasts duration_s = end_t - start_t >= 120 s, and consecutive
\* ones are more than 10 s apart.
C5_StuckIntervalsDisjoint ==
    last_build # None =>
        /\ \A k \in 1..Len(BuiltIntervals) :
              /\ BuiltIntervals[k].duration_s = BuiltIntervals[k].end_t - BuiltIntervals[k].start_t
              /\ BuiltIntervals[k].duration_s >= 120
        /\ \A k \in 1..(Len(BuiltIntervals) - 1) :
              /\ BuiltIntervals[k].start_t < BuiltIntervals[k + 1].start_t
              /\ BuiltIntervals[k].end_t < BuiltIntervals[k + 1].start_t
              /\ BuiltIntervals[k + 1].start_t - BuiltIntervals[k].end_t > 10

\* C5 witness: a build found two stuck intervals
C5_Witness == last_build # None /\ Len(BuiltIntervals) = 2

\* reachable as well: two stationary stretches 10 s apart, merged into one interval
C5_Merged ==
    /\ last_build # None
    /\ Len(BuiltIntervals) = 1
    /\ \E i \in 1..Len(FetchedRecords) :
          /\ has_movement(FetchedRecords[i].events)
          /\ BuiltIntervals[1].start_t < FetchedRecords[i].t
          /\ FetchedRecords[i].t < BuiltIntervals[1].end_t

-----------------------------------------------------------------------------
(* Properties of the query planner, checked under SpecQuery *)

\* the requester is an approved contact of the client, read off table emergency_contacts
Approved(requester_id, client_id) ==
    \E row \in ToSet(contacts) :
        row.client_id = client_id /\ row.contact_id = requester_id /\ row.authorized = 1

\* C3: every query starts with is_authorized(requester, client); when that is
\* false the query fails with PermissionError having read neither the record
\* store nor the index store and having built and written nothing.
C3_AuthorizationFirst ==
    [][last_query' # last_query =>
          /\ last_query'[1].ops[1] = "is_authorized"
          /\ ~Approved(last_query'[1].requester_id, last_query'[1].client_id) =>
                /\ last_query'[1].outcome = "PermissionError"
                /\ last_query'[1].ops = <<"is_authorized">>
                /\ last_query'[1].response = None
                /\ indices' = indices
                /\ last_build' = last_build
                /\ logs' = logs]_vars

\* C3 witness: bob, who is no contact of alice, was refused while alice has
\* records and a persisted index
C3_Witness ==
    /\ last_query # None
    /\ last_query[1].requester_id = "bob" /\ last_query[1].client_id = "alice"
    /\ last_query[1].outcome = "PermissionError"
    /\ read_index(indices, index_key("alice", None)) # None
    /\ \E i \in 1..Len(logs) : logs[i].client_id = "alice"

-----------------------------------------------------------------------------
(* Properties of clear_client_state and of the detection rules *)

\* C11: clear_client_state(c) leaves c with an empty window and with neither a
\* stuck nor an accident stamp, whatever c's state was, a client never seen included.
C11_ClearLeavesNothing ==
    [][\A c \in Clients :
          clear_client_state(c) =>
              /\ Get(client_windows', c, << >>) = << >>
              /\ c \notin DOMAIN stuck_alerts'
              /\ c \notin DOMAIN accident_alerts']_vars

\* C11 witness: a client that was sent a stuck alert and an accident alert has
\* been cleared, while another client was never seen
C11_Witness ==
    \E c \in Clients :
        /\ consumed[c] = << >>
        /\ c \in DOMAIN client_windows /\ client_windows[c] = << >>
        /\ c \notin DOMAIN stuck_alerts /\ c \notin DOMAIN accident_alerts
        /\ \E i, j \in 1..Len(alerts) :
              /\ alerts[i].client_id = c /\ alerts[i].alert_type = "stuck_alert"
              /\ alerts[j].client_id = c /\ alerts[j].alert_type = "accident_alert"
        /\ \E d \in Clients : d \notin DOMAIN client_windows

\* the window a client's call j worked on
WindowAt(c, j) == Tail_n(SubSeq(ConsumedRecords(c), 1, j), 100)

\* the start of the stationary run anchored at the newest record of a window
RunStart(window) == stuck_scan(window, Len(window), << >>, None)

\* the rule of C12 for the client's calls whose window has at least min_len records
StuckRule(c, min_len) ==
    \A j \in 1..Len(consumed[c]) :
        LET entry == consumed[c][j]
            window == WindowAt(c, j)
            newest == window[Len(window)]
            previous == PreviousAlert(c, j, "stuck_alert")
            last == IF previous = None THEN 0 ELSE previous[1]
        IN Len(window) >= min_len =>
              /\ (/\ RunStart(window) # None
                  /\ entry.now - RunStart(window)[1] >= 300
                  /\ entry.now - last >= 900)
                 => /\ \E k \in 1..Len(entry.emitted) :
                          /\ entry.emitted[k].type = "stuck_alert"
                          /\ entry.emitted[k].since = RunStart(window)
                    /\ j = Len(consumed[c]) => last_stuck_alert(c) = entry.now
              /\ ~is_stationary(newest.events, PushDepth(<< >>, newest.free_ahead_m))
                 => ~Sent(entry, "stuck_alert")

\* C12: on every processed record and every non-empty window, a stationary run
\* anchored at the newest record that started at least 300 s ago raises a stuck
\* alert with since = its start and stamps now, once 900 s have passed since
\* the last one; a newest record that is not stationary raises none.  The code
\* violates it for a window of one record.
C12_StuckOnEveryRecord == \A c \in Clients : StuckRule(c, 1)

\* holds: the same rule for the windows of at least two records
C12_FromTwoRecords == \A c \in Clients : StuckRule(c, 2)

\* the accident tags of a record, by exact match
AccidentTags(record) == ToSet(record.events) \cap {"fall", "impact", "collision", "device_drop"}

\* the debounce lets the client's call j send an accident alert
AccidentDebounceElapsed(c, j) ==
    LET previous == PreviousAlert(c, j, "accident_alert")
    IN previous = None \/ consumed[c][j].now - previous[1] >= 7200

\* the call of an entry sent a direct accident alert for its record
SentDirect(entry) ==
    \E k \in 1..Len(entry.emitted) :
        /\ entry.emitted[k].type = "accident_alert"
        /\ entry.emitted[k].t = entry.record.t
        /\ entry.emitted[k].rationale # None
        /\ entry.emitted[k].rationale[1].pattern = "direct"
        /\ entry.emitted[k].rationale[1].events = AccidentTags(entry.record)

\* C13: a record with an event of ACCIDENT (exact match), processed when the
\* accident debounce has elapsed, raises an accident alert with t = record.t
\* and a rationale naming the matched events, whatever the window holds; a
\* record without such an event raises no direct alert.
C13_DirectAccident ==
    \A c \in Clients : \A j \in 1..Len(consumed[c]) :
        LET entry == consumed[c][j]
        IN /\ (AccidentTags(entry.record) # {} /\ AccidentDebounceElapsed(c, j))
                 => SentDirect(entry)
           /\ AccidentTags(entry.record) = {} => entry.pattern # "direct"

\* C13 witness: a fall as the only record of the window raised an alert, and two
\* hours later a record with stop, impact and collision raised one naming both tags
C13_Witness ==
    \E c \in Clients : \E i, j \in 1..Len(consumed[c]) :
        /\ i = 1 /\ i < j
        /\ SentDirect(consumed[c][i])
        /\ SentDirect(consumed[c][j])
        /\ AccidentTags(consumed[c][j].record) = {"impact", "collision"}
        /\ \E k \in 1..Len(consumed[c]) : consumed[c][k].record.events = <<"near_fall">>

\* pattern 2, and pattern 3, taken alone, match on the window of the client's call j
ObstacleStopMatches(c, j) ==
    /\ Len(WindowAt(c, j)) >= 3
    /\ anchor_scan(WindowAt(c, j), Len(WindowAt(c, j))).pattern # "none"
VeerSurgeMatches(c, j) ==
    /\ Len(WindowAt(c, j)) >= 3
    /\ veer_surge(WindowAt(c, j), consumed[c][j].record).pattern # "none"

\* C14: the accident patterns are tried in the order direct, obstacle-stop,
\* veer surge and the first that matches decides: a call sends at most one
\* accident alert, of the first matching pattern, and a direct match leaves
\* patterns 2 and 3 out.
C14_FirstPatternWins ==
    \A c \in Clients : \A j \in 1..Len(consumed[c]) :
        LET entry == consumed[c][j]
            accidents == {k \in 1..Len(entry.emitted) :
                             entry.emitted[k].type = "accident_alert"}
        IN /\ Cardinality(accidents) <= 1
           /\ entry.pattern = IF AccidentTags(entry.record) # {} THEN "direct"
                              ELSE IF ObstacleStopMatches(c, j) THEN "obstacle_stop"
                              ELSE IF VeerSurgeMatches(c, j) THEN "veer_surge"
                              ELSE "none"
           /\ \A k \in accidents : entry.emitted[k].rationale[1].pattern = entry.pattern

\* C14 witness: a fall arrived when the obstacle-stop pattern matched as well,
\* and the one alert sent is the direct one
C14_Witness ==
    \E c \in Clients : \E j \in 1..Len(consumed[c]) :
        /\ ObstacleStopMatches(c, j)
        /\ SentDirect(consumed[c][j])
        /\ Len(consumed[c][j].emitted) = 1

\* reachable as well: obstacle-stop and veer surge both match, obstacle-stop decides
C14_ObstacleBeforeVeer ==
    \E c \in Clients : \E j \in 1..Len(consumed[c]) :
        /\ ObstacleStopMatches(c, j) /\ VeerSurgeMatches(c, j)
        /\ consumed[c][j].pattern = "obstacle_stop"

\* the records of a window the claim names as possible anchors: the (up to) 10
\* most recent ones
LastTen(window) == {i \in 1..Len(window) : i > Len(window) - 10}

\* record i of the window is an anchor followed by a stop, with no directional
\* event after it and 30 s or more without proceeding, seen within 35 s
AnchorFires(window, i) ==
    /\ is_anchor(window[i])
    /\ no_proceed_scan(window, i + 1, window[i].t, FALSE, 0).stop_found
    /\ no_proceed_scan(window, i + 1, window[i].t, FALSE, 0).no_proceed_duration >= 30

\* the call of an entry sent an accident alert
SentAccident(entry) ==
    \E k \in 1..Len(entry.emitted) : entry.emitted[k].type = "accident_alert"

\* C15: every record among the (up to) 10 most recent of the window is
\* considered as anchor of pattern 2: when one of them has an OBSTACLE event,
\* confidence >= 0.7 and free_ahead_m <= 0.4, a stop follows it, no directional
\* event follows the stop and the last record seen within 35 s is 30 s or more
\* after it, the call sends an accident alert (debounce permitting).
C15_AnchorAmongLastTen ==
    \A c \in Clients : \A j \in 1..Len(consumed[c]) :
        (/\ AccidentDebounceElapsed(c, j)
         /\ \E i \in LastTen(WindowAt(c, j)) : AnchorFires(WindowAt(c, j), i))
            => SentAccident(consumed[c][j])

\* what the loop does: the same, for the anchors range() visits in a window of
\* three records or more (the 9 most recent, never the oldest of the window)
C15_VisitedAnchors ==
    \A c \in Clients : \A j \in 1..Len(consumed[c]) :
        (/\ AccidentDebounceElapsed(c, j)
         /\ Len(WindowAt(c, j)) >= 3
         /\ \E i \in LastTen(WindowAt(c, j)) :
               i >= anchor_lowest(WindowAt(c, j)) /\ AnchorFires(WindowAt(c, j), i))
            => SentAccident(consumed[c][j])

\* reachable: an anchor the loop visits raised the obstacle-stop alert
C15_VisitedAnchorAlert ==
    \E c \in Clients : \E j \in 1..Len(consumed[c]) :
        /\ consumed[c][j].pattern = "obstacle_stop"
        /\ SentAccident(consumed[c][j])

-----------------------------------------------------------------------------
(* Properties of the index store *)

\* the keys index:<client> and index:<client>:<session> of the clients
IndexKeys == {index_key(c, s) : c \in Clients, s \in {None, Some("s1")}}

\* the index a build with arguments b persists, as the JSON column returns it
PutBy(b) == Some(json_index(build_index(b[1], get_logs(b[1], b[4], b[2], b[3]))))

\* C18: the store returns for a key what was last put under that same key: a
\* build that persists under one key changes what a lookup of that key
\* returns and of no other key, so the client-wide key and a session key
\* never read or overwrite one another, and a key never put reads as nothing.
C18_GetReturnsLastPut ==
    /\ \A k \in IndexKeys : read_index(indices, k) = None
    /\ [][\A b \in IndexBuilds :
            process_logs(b[1], b[2], b[3], b[4]) =>
                \A k \in IndexKeys :
                    read_index(indices', k) =
                        IF k = index_key(b[1], b[4]) THEN PutBy(b)
                        ELSE read_index(indices, k)]_vars

\* what holds: a lookup of the key just put returns the index just put
C18_PutThenGet ==
    [][\A b \in IndexBuilds :
          process_logs(b[1], b[2], b[3], b[4]) =>
              read_index(indices', index_key(b[1], b[4])) = PutBy(b)]_vars

\* reachable: both kinds of build ran and one row is all the table holds
C18_OneRowForTwoKeys ==
    /\ last_build # None /\ last_build[1].prior # None
    /\ last_build[1].session_id # last_build[1].prior[1].session_id
    /\ Len(indices) = 1

-----------------------------------------------------------------------------
(* Failures of a notification *)

\* the check of a consumed call in which tools.notify raised: "none" if none did
Raised(entry) == IF "raised" \in DOMAIN entry THEN entry.raised ELSE "none"

\* the rows of table alerts a call inserted for an alert type
RowsOf(entry, type) ==
    SelectSeq(alerts, LAMBDA r : r.call = entry.call /\ r.alert_type = type)

\* C19: a failure raised inside the stuck check does not abort the accident
\* check of the same record: a record with an accident tag, processed when the
\* accident debounce has elapsed, raises its accident alert although the stuck
\* check of that call failed.
C19_StuckFailureSwallowed ==
    \A c \in Clients : \A j \in 1..Len(consumed[c]) :
        LET entry == consumed[c][j]
        IN (/\ Raised(entry) = "stuck"
            /\ AccidentTags(entry.record) # {}
            /\ AccidentDebounceElapsed(c, j))
               => /\ SentAccident(entry)
                  /\ RowsOf(entry, "accident_alert") # << >>

\* what holds: without a failure in the stuck check the accident alert is sent
C19_WithoutStuckFailure ==
    \A c \in Clients : \A j \in 1..Len(consumed[c]) :
        LET entry == consumed[c][j]
        IN (/\ Raised(entry) = "none"
            /\ AccidentTags(entry.record) # {}
            /\ AccidentDebounceElapsed(c, j))
               => /\ SentAccident(entry)
                  /\ RowsOf(entry, "accident_alert") # << >>

\* reachable: the stuck check of a record with an accident tag raised
C19_StuckRaisedOnAccident ==
    \E c \in Clients : \E j \in 1..Len(consumed[c]) :
        /\ Raised(consumed[c][j]) = "stuck"
        /\ AccidentTags(consumed[c][j].record) # {}
        /\ AccidentDebounceElapsed(c, j)

\* the call of an entry inserted the row of its failed alert for contact i
Notified(entry, i) ==
    \E k \in 1..Len(alerts) :
        /\ alerts[k].call = entry.call
        /\ alerts[k].alert_type = entry.raised_alert.type
        /\ alerts[k].contact_id = entry.contact_list[i]

\* C20: a notification that fails for one contact rolls back no row already
\* written and does not keep the other contacts of the same alert from being
\* notified: every contact of the alert but the failing one has its row.
C20_OtherContactsNotified ==
    \A c \in Clients : \A j \in 1..Len(consumed[c]) :
        LET entry == consumed[c][j]
        IN Raised(entry) # "none" =>
              \A i \in 1..Len(entry.contact_list) :
                  i # entry.fail_at => Notified(entry, i)

\* what holds: the rows of the contacts notified before the failing one stay
C20_EarlierRowsKept ==
    \A c \in Clients : \A j \in 1..Len(consumed[c]) :
        LET entry == consumed[c][j]
        IN Raised(entry) # "none" =>
              \A i \in 1..Len(entry.contact_list) :
                  i < entry.fail_at => Notified(entry, i)

\* reachable: after a failed notification a later record of the client raised
\* an alert of the same type
C20_LaterAlert ==
    \E c \in Clients : \E j, k \in 1..Len(consumed[c]) :
        /\ j < k
        /\ Raised(consumed[c][j]) # "none"
        /\ consumed[c][j].fail_at = 2
        /\ Raised(consumed[c][k]) = "none"
        /\ Sent(consumed[c][k], consumed[c][j].raised_alert.type)

-----------------------------------------------------------------------------
(* Concurrent requests *)

\* two rows of table alerts of the same client and type, sent by different calls
TwoAlerts(i, j) ==
    /\ alerts[i].client_id = alerts[j].client_id
    /\ alerts[i].alert_type = alerts[j].alert_type
    /\ alerts[i].call # alerts[j].call

\* the debounce period of an alert type
DebounceOf(type) == IF type = "stuck_alert" THEN 900 ELSE 7200

\* C16: when records of one client are processed concurrently, the debounce
\* read, the alert and the debounce write are one atomic step: two stuck alerts,
\* or two accident alerts, of a client are never sent within the debounce
\* period of one another.
C16_DebounceAtomic ==
    \A i, j \in 1..Len(alerts) :
        (i < j /\ TwoAlerts(i, j))
            => alerts[j].created_at - alerts[i].created_at >= DebounceOf(alerts[i].alert_type)

\* what holds when the calls run one at a time: the same, for the calls of a
\* client since its last clear
C16_OneAtATime ==
    \A i, j \in 1..Len(alerts) :
        (/\ i < j /\ TwoAlerts(i, j)
         /\ \A r \in {i, j} :
               \E k \in 1..Len(consumed[alerts[r].client_id]) :
                   consumed[alerts[r].client_id][k].call = alerts[r].call)
            => alerts[j].created_at - alerts[i].created_at >= DebounceOf(alerts[i].alert_type)

\* reachable with one call at a time: a second stuck alert, 900 s after the first
C16_SecondAlert ==
    \E i, j \in 1..Len(alerts) :
        /\ i < j /\ TwoAlerts(i, j)
        /\ alerts[i].alert_type = "stuck_alert"
        /\ alerts[j].created_at - alerts[i].created_at >= 900

\* the rows of table user_indices stored for the key of a client and session
RowsForKey(client_id, session_id) ==
    {i \in 1..Len(indices) :
        indices[i].client_id = client_id /\ indices[i].session_id = session_id}

\* C17: when two builds for the same key run concurrently the last writer
\* wins: once both have finished, a lookup of the key returns the index of the
\* build that persisted last, and one index is stored for the key.
C17_LastWriterWins ==
    ((\A th \in Threads : threads[th] = None) /\ last_build # None)
        => LET build == last_build[1]
           IN /\ read_index(indices, index_key(build.client_id, build.session_id))
                    = Some(json_index(build.index))
              /\ Cardinality(RowsForKey(build.client_id, build.session_id)) = 1

\* what holds of concurrent builds: when the key had its row before both started,
\* the row is updated in place and the last writer wins
C17_UpdateInPlace ==
    [][\A th \in Threads :
          (commit_build(th) /\ threads[th][1].existing # 0)
              => /\ Len(indices') = Len(indices)
                 /\ indices'[threads[th][1].existing].index_data
                        = json_index(threads[th][1].index)]_vars

\* reachable: two builds that overlapped have both finished
C17_BothFinished ==
    /\ \A th \in Threads : threads[th] = None
    /\ last_build # None /\ last_build[1].prior # None
    /\ Len(indices) = 2

-----------------------------------------------------------------------------
(* Failures of a build *)

\* the stage at which the build of a last_build entry raised: "none" if it returned
BuildRaised(build) == IF "raised" \in DOMAIN build THEN build.raised ELSE "none"

-----------------------------------------------------------------------------
(* Further properties of the query planner *)

\* what a refused requester observes: a function of the request alone
Denial(requester_id, client_id) ==
    [requester_id |-> requester_id, client_id |-> client_id,
     outcome |-> "PermissionError", ops |-> <<"is_authorized">>,
     detail |-> Some(<<"Unauthorized requester: ", requester_id>>),
     response |-> None]

\* C22: the outcome of an unauthorized query does not depend on the client's
\* data: in every store state, whether the client has records and indices or
\* none, a requester who is not an approved contact observes the same
\* Unauthorized outcome, which names the requester only.
C22_DenialIndependentOfData ==
    [][(/\ last_query' # last_query
         /\ ~Approved(last_query'[1].requester_id, last_query'[1].client_id))
            => last_query'[1] = Denial(last_query'[1].requester_id,
                                       last_query'[1].client_id)]_vars

\* C22 witness: carol, no contact of test_client, was refused while test_client
\* has records and a persisted index
C22_Witness ==
    /\ last_query # None
    /\ last_query[1] = Denial("carol", "test_client")
    /\ read_index(indices, index_key("test_client", None)) # None
    /\ \E i \in 1..Len(logs) : logs[i].client_id = "test_client"

\* reachable as well: the same refusal while the stores are empty
C22_DeniedOnEmptyStore ==
    /\ last_query # None
    /\ last_query[1] = Denial("carol", "test_client")
    /\ logs = << >> /\ indices = << >>

\* the metric the rules give a question made of the given phrases, by the rule
\* each phrase belongs to
MetricOfPhrases(phrases) ==
    LET used == ToSet(phrases)
    IN IF used \cap {"Collision Warning", "NEAR miss"} # {} THEN "almost_crash"
       ELSE IF used \cap {"Stuck", "not Moving"} # {}
       THEN IF used \cap {"WHEN", "Show"} # {} THEN "stuck_intervals"
            ELSE "stuck_minutes"
       ELSE IF used \cap {"did he Fall", "impact"} # {} THEN "accident"
       ELSE "event_counts"

\* the phrases a question was made of
PhrasesOf(question) == CHOOSE phrases \in PhraseSeqs : Join(phrases) = question

\* C23: the intent is found by case-insensitive substring match, the first
\* matching rule winning in the order almost_crash, stuck (stuck_intervals
\* with interval/when/show, else stuck_minutes), accident, event_counts;
\* 'collision warning' gives almost_crash, and the result is one of the five metrics.
C23_FirstRuleWins ==
    (last_query # None /\ last_query[1].outcome = "ok")
        => /\ last_query[1].response[1].metric
                 = MetricOfPhrases(PhrasesOf(last_query[1].question))
           /\ last_query[1].response[1].metric \in
                 {"almost_crash", "stuck_minutes", "stuck_intervals", "accident",
                  "event_counts"}

\* C23 witness: a question with a phrase of the accident rule and, after it,
\* one of the almost-crash rule was classified almost_crash
C23_Witness ==
    /\ last_query # None /\ last_query[1].outcome = "ok"
    /\ last_query[1].question = "impact Collision Warning"
    /\ last_query[1].response[1].metric = "almost_crash"

\* reachable as well: a stuck question with a modifier before it
C23_StuckIntervals ==
    /\ last_query # None /\ last_query[1].outcome = "ok"
    /\ last_query[1].question = "Show Stuck"
    /\ last_query[1].response[1].metric = "stuck_intervals"

\* the index the query that just ran has acquired, and the rows stored for its
\* key before it ran
QueryKeyRows == RowsForKey(last_query'[1].client_id, last_query'[1].session_id)
QueryRan == last_query' # last_query /\ last_query'[1].outcome = "ok"

\* the seven days before now, as handle_query parses an absent time window
DefaultWindow == [start |-> clock - 7 * 86400, end |-> clock]

\* C24: an authorized query uses the index cached for (client, session?)
\* without invoking the indexer or reading the record store; when none is
\* cached for that key it invokes the indexer with the session and the parsed
\* window and the index is persisted under the key; the metric is computed
\* from the acquired index only.
C24_IndexAcquisition ==
    [][QueryRan =>
          LET query == last_query'[1]
              cached == {indices[i].index_data : i \in QueryKeyRows}
          IN /\ cached # {} =>
                   /\ query.ops = <<"is_authorized", "read_index">>
                   /\ query.response[1].index \in cached
                   /\ indices' = indices /\ last_build' = last_build
             /\ cached = {} =>
                   /\ query.ops = <<"is_authorized", "read_index", "get_logs", "save_index">>
                   /\ last_build'[1].session_id = query.session_id
                   /\ last_build'[1].time_start = Some(DefaultWindow.start)
                   /\ last_build'[1].time_end = Some(DefaultWindow.end)
                   /\ query.response[1].index = last_build'[1].index
                   /\ \E i \in 1..Len(indices') :
                         /\ indices'[i].client_id = query.client_id
                         /\ indices'[i].session_id = query.session_id
                         /\ indices'[i].index_data = json_index(last_build'[1].index)]_vars

\* what holds: the same with "cached" read as the store answers the lookup of
\* the key, and the result is the metric of the acquired index
C24_AsTheStoreAnswers ==
    [][QueryRan =>
          LET query == last_query'[1]
              key == index_key(query.client_id, query.session_id)
              cached == read_index(indices, key)
          IN /\ cached # None =>
                   /\ query.ops = <<"is_authorized", "read_index">>
                   /\ query.response[1].index = cached[1]
                   /\ indices' = indices /\ last_build' = last_build
             /\ cached = None =>
                   /\ query.ops = <<"is_authorized", "read_index", "get_logs", "save_index">>
                   /\ last_build'[1].session_id = query.session_id
                   /\ last_build'[1].time_start = Some(DefaultWindow.start)
                   /\ last_build'[1].time_end = Some(DefaultWindow.end)
                   /\ query.response[1].index = last_build'[1].index
                   /\ read_index(indices', key) = Some(json_index(last_build'[1].index))
             /\ query.response[1].result
                   = compute_metric(query.response[1].metric, query.response[1].index,
                                    query.response[1].params, cached # None).result]_vars

\* reachable: a query without session answered from the index of a session
C24_SessionIndexUsed ==
    /\ last_query # None /\ last_query[1].outcome = "ok"
    /\ last_query[1].session_id = None
    /\ last_query[1].ops = <<"is_authorized", "read_index">>
    /\ RowsForKey("alice", None) = {}

-----------------------------------------------------------------------------
(* Properties of the hazards and of the metrics computed from them *)

\* the candidates that start a chain: the first, and each that comes more than
\* MERGE_WINDOW_S after the candidate before it (candidates is in ascending t)
ChainStarts(candidates) ==
    {i \in 1..Len(candidates) :
        i = 1 \/ candidates[i].t - candidates[i - 1].t > MERGE_WINDOW_S}

\* C25: near-miss grouping chains adjacent candidates: a candidate joins the
\* group of the candidate before it iff it comes at most MERGE_WINDOW_S after
\* it, so there are as many almost_crash_moments as maximal chains, one from
\* each chain; obstacle sightings at 100, 102, 105 and 200 (confidence 0.8,
\* depth 0.5 m) count as 2 almost crashes.
C25_ChainedGroups ==
    last_build # None =>
        /\ Len(BuiltMoments) = Cardinality(ChainStarts(BuiltCandidates))
        /\ \A k \in 1..Len(BuiltMoments) :
              \E i \in ChainStarts(BuiltCandidates) :
                 /\ Cardinality({j \in ChainStarts(BuiltCandidates) : j <= i}) = k
                 /\ BuiltMoments[k].t >= BuiltCandidates[i].t
                 /\ \A j \in ChainStarts(BuiltCandidates) :
                       j > i => BuiltMoments[k].t < BuiltCandidates[j].t
        /\ [i \in 1..Len(BuiltCandidates) |-> BuiltCandidates[i].t] = <<100, 102, 105, 200>>
              => compute_almost_crash(BuiltIndex, default_params).result.count = 2

\* C25 witness: a build over the four sightings at 100, 102, 105 and 200
C25_Witness ==
    /\ last_build # None
    /\ [i \in 1..Len(BuiltCandidates) |-> BuiltCandidates[i].t] = <<100, 102, 105, 200>>
    /\ \A i \in 1..4 : BuiltCandidates[i].free_ahead_m = Some(50)
                        /\ BuiltCandidates[i].confidence = 80
    /\ Len(BuiltMoments) = 2

\* the intervals the last build emitted before merging, and its records in ascending t
BuiltEmitted == emitted_intervals(BuiltIndex)
BuiltRecords == sorted_records(BuiltIndex)

\* a record that stands still whatever the depths seen: it has stop and no
\* directional event
Standing(record) == "stop" \in ToSet(record.events) /\ ~has_movement(record.events)

\* the maximal runs of consecutive standing records, as pairs of positions
MaximalRuns(records) ==
    {run \in (1..Len(records)) \X (1..Len(records)) :
        /\ run[1] <= run[2]
        /\ \A i \in run[1]..run[2] : Standing(records[i])
        /\ run[1] > 1 => ~Standing(records[run[1] - 1])
        /\ run[2] < Len(records) => ~Standing(records[run[2] + 1])}

\* C26: walking the records in ascending t, a maximal run of consecutive
\* stationary records is emitted as [t of its first record, t of its last
\* record] iff that span is at least STUCK_MIN_S, whether a non-stationary
\* record or the end of the records closes it; records every 10 s from 0 to
\* 150 that all contain stop yield the one interval [0, 150] of 150 s, and
\* stuck_minutes is 2.5.
C26_StuckRunsEmitted ==
    last_build # None =>
        /\ ToSet(BuiltEmitted)
              = {[start_t |-> BuiltRecords[run[1]].t, end_t |-> BuiltRecords[run[2]].t,
                  duration_s |-> BuiltRecords[run[2]].t - BuiltRecords[run[1]].t] :
                 run \in {r \in MaximalRuns(BuiltRecords) :
                             BuiltRecords[r[2]].t - BuiltRecords[r[1]].t >= STUCK_MIN_S}}
        /\ \A k \in 1..(Len(BuiltEmitted) - 1) :
              BuiltEmitted[k].end_t < BuiltEmitted[k + 1].start_t
        /\ (/\ Len(BuiltRecords) = 16
            /\ \A i \in 1..16 : BuiltRecords[i].t = 10 * (i - 1)
                                  /\ "stop" \in ToSet(BuiltRecords[i].events))
              => /\ BuiltIntervals = <<[start_t |-> 0, end_t |-> 150, duration_s |-> 150]>>
                 /\ compute_stuck_minutes(BuiltIndex, default_params).result
                       = [minutes_tenths |-> 25]

\* C26 witness: a build over sixteen standing records from 0 to 150
C26_Witness ==
    /\ last_build # None
    /\ Len(BuiltRecords) = 16
    /\ \A i \in 1..16 : BuiltRecords[i].events = <<"stop">>
                          /\ BuiltRecords[i].free_ahead_m = Some(100)
    /\ BuiltEmitted = <<[start_t |-> 0, end_t |-> 150, duration_s |-> 150]>>

\* reachable as well: a run of exactly STUCK_MIN_S emitted at the end of the
\* records, and a shorter run dropped when a step forward closes it
C26_RunOfMinimalSpan ==
    /\ last_build # None
    /\ Len(BuiltRecords) = 16
    /\ has_movement(BuiltRecords[3].events)
    /\ BuiltEmitted = <<[start_t |-> 30, end_t |-> 150, duration_s |-> 120]>>

\* the index the query just handled has used, answered or not
QueriedIndex ==
    IF last_query'[1].outcome = "ok" THEN last_query'[1].response[1].index
    ELSE last_query'[1].index

\* patterns 1 and 2 over records in ascending t: the first record with a direct
\* accident event, else the first anchor whose look-ahead finds stop and no
\* movement for ACCIDENT_NO_PROCEED_S
AccidentOf(records) ==
    LET direct == {i \in 1..Len(records) :
                      ToSet(records[i].events) \cap ACCIDENT_EVENTS # {}}
        fired == {i \in 1..Len(records) :
                     /\ accident_anchor(records[i])
                     /\ look_ahead(records, i + 1, records[i].t, FALSE, 0).stop_found
                     /\ look_ahead(records, i + 1, records[i].t, FALSE, 0).no_proceed_duration
                           >= ACCIDENT_NO_PROCEED_S}
    IN IF direct # {} THEN [detected |-> TRUE, first_t |-> Some(records[SetMin(direct)].t)]
       ELSE IF fired # {} THEN [detected |-> TRUE, first_t |-> Some(records[SetMin(fired)].t)]
       ELSE [detected |-> FALSE, first_t |-> None]

AccidentAsked ==
    /\ last_query' # last_query
    /\ last_query'[1].outcome # "PermissionError"
    /\ classify_intent(last_query'[1].question) = "accident"

\* C27: the planner's accident metric evaluates patterns 1 and 2 over all
\* records of the index in ascending t and returns detected = true with
\* first_t = the t of the matched record (the direct-event record, else the
\* pattern-2 anchor), or detected = false when neither matches; for (t=0,
\* obstacle_center, 0.3 m, confidence 0.8), (t=3, stop), (t=35, stop) it
\* returns detected with first_t = 0 and 35 s without movement.
C27_AccidentMetric ==
    [][AccidentAsked =>
          LET expected == AccidentOf(sorted_items(QueriedIndex, FALSE))
          IN /\ last_query'[1].outcome = "ok"
             /\ last_query'[1].response[1].result.detected = expected.detected
             /\ last_query'[1].response[1].result.first_t = expected.first_t]_vars

\* what holds: the same when the index has just been built by the query, with
\* the example's rationale
C27_OnFreshIndex ==
    [][(AccidentAsked /\ last_build' # last_build) =>
          LET records == sorted_items(QueriedIndex, FALSE)
              expected == AccidentOf(records)
              result == last_query'[1].response[1].result
          IN /\ last_query'[1].outcome = "ok"
             /\ result.detected = expected.detected
             /\ result.first_t = expected.first_t
             /\ (/\ Len(records) = 3
                 /\ accident_anchor(records[1]) /\ records[1].free_ahead_m = Some(30)
                 /\ records[2].events = <<"stop">> /\ records[3].events = <<"stop">>)
                   => /\ result.detected /\ result.first_t = Some(0)
                      /\ result.rationale[1].depth = 30
                      /\ result.rationale[1].duration = 35]_vars

\* reachable: the example's records answered from a fresh index
C27_ExampleDetected ==
    /\ last_query # None /\ last_query[1].outcome = "ok"
    /\ last_query[1].ops = <<"is_authorized", "read_index", "get_logs", "save_index">>
    /\ Len(logs) = 3
    /\ last_query[1].response[1].result.first_t = Some(0)
    /\ last_query[1].response[1].result.rationale[1].duration = 35

\* reachable: the accident query over a cached index that holds a fall raises TypeError
C27_CachedIndexRaises ==
    /\ last_query # None /\ last_query[1].outcome = "TypeError"
    /\ last_query[1].ops = <<"is_authorized", "read_index">>
    /\ \E k \in DOMAIN last_query[1].index.by_time :
          "fall" \in ToSet(last_query[1].index.by_time[k].events)

\* the response of the last query that was answered
Answered == last_query # None /\ last_query[1].outcome = "ok"
Response == last_query[1].response[1]

\* the positions of the near-miss moments of an index that pass the parameters
MatchingMoments(index, params) ==
    {i \in 1..Len(index.hazards.almost_crash_moments) :
        LET m == index.hazards.almost_crash_moments[i]
        IN /\ m.confidence >= params.conf_min
           /\ (m.free_ahead_m = None \/ m.free_ahead_m[1] <= params.crash_near_m)}

\* C28: for every index and every params the almost_crash metric returns
\* count = the number of hazards.almost_crash_moments with confidence >=
\* params.conf_min and free_ahead_m absent or <= params.crash_near_m, its
\* samples are the first three matching moments in order, and the response
\* of every metric carries at most 3 samples.
C28_AlmostCrashCount ==
    Answered =>
        /\ Len(Response.samples) <= 3
        /\ Response.metric = "almost_crash" =>
              LET moments == Response.index.hazards.almost_crash_moments
                  matching == MatchingMoments(Response.index, Response.params)
                  first3 == Head_n(SortedSeq(matching), 3)
              IN /\ Response.result = [count |-> Cardinality(matching)]
                 /\ Len(Response.samples) = Len(first3)
                 /\ \A k \in 1..Len(first3) :
                       /\ Response.samples[k].t = isoformat(moments[first3[k]].t)
                       /\ Response.samples[k].free_ahead_m = moments[first3[k]].free_ahead_m
                       /\ Response.samples[k].confidence = moments[first3[k]].confidence
                       /\ Response.samples[k].events = moments[first3[k]].events
                       /\ Response.samples[k].classes = moments[first3[k]].classes

\* C28 witness: a nearer crash distance leaves out the first of four moments,
\* and the three others are the samples
C28_Witness ==
    /\ Answered /\ Response.metric = "almost_crash"
    /\ Response.params.crash_near_m = 20
    /\ Len(Response.index.hazards.almost_crash_moments) = 4
    /\ MatchingMoments(Response.index, Response.params) = {2, 3, 4}
    /\ Len(Response.samples) = 3

\* reachable as well: four matching moments, of which three are the samples
C28_FourMatches ==
    /\ Answered /\ Response.metric = "almost_crash"
    /\ Response.result = [count |-> 4]
    /\ Len(Response.samples) = 3

\* the stored records a build with bounds is to cover: the client's, of the
\* session when one is given, with start <= t < end
InBounds(build) ==
    {r \in ToSet(logs) :
        /\ r.client_id = build.client_id
        /\ (build.session_id # None => r.session_id = build.session_id[1])
        /\ build.time_start[1] <= r.t
        /\ r.t < build.time_end[1]}

\* C29: an index built with time bounds covers exactly the client's (and the
\* session's) records with start <= t < end: a record with t = start is
\* included and a record with t = end is excluded.
C29_HalfOpenBounds ==
    [][(last_build' # last_build /\ BuildRaised(last_build'[1]) = "none"
          /\ last_build'[1].time_start # None /\ last_build'[1].time_end # None) =>
          LET build == last_build'[1]
          IN /\ ToSet(build.log_records) = InBounds(build)
             /\ DOMAIN build.index.by_time
                   = {r.t : r \in {x \in InBounds(build) : validate_record(x)}}
             /\ build.index.dropped_records
                   = Cardinality({x \in InBounds(build) : ~validate_record(x)})
             /\ \A r \in ToSet(logs) :
                   r.client_id = build.client_id /\ r.t = build.time_end[1]
                      => r.t \notin DOMAIN build.index.by_time]_vars

\* C29 witness: a build from 103 to 226 over records at 103 and at 226 covers
\* the first and not the second
C29_Witness ==
    /\ last_build # None
    /\ last_build[1].time_start = Some(103) /\ last_build[1].time_end = Some(226)
    /\ \E r \in ToSet(logs) : r.client_id = "test_client" /\ r.t = 226 /\ validate_record(r)
    /\ DOMAIN BuiltIndex.by_time = {103}

\* in a window, a directional event follows a stop that follows record i, all
\* within the scan from record i (ACCIDENT_PATTERN_WINDOW_S + ACCIDENT_NO_PROCEED_S)
MovementResumedAfter(window, i) ==
    \E s, m \in (i + 1)..Len(window) :
        /\ s < m
        /\ "stop" \in ToSet(window[s].events)
        /\ has_movement(window[m].events)
        /\ \A k \in (i + 1)..m :
              window[k].t - window[i].t
                 <= ACCIDENT_PATTERN_WINDOW_S + ACCIDENT_NO_PROCEED_S

\* the anchors of the obstacle-stop alert an entry's call has sent
AlertAnchors(window, entry) ==
    {i \in 1..Len(window) :
        /\ is_anchor(window[i])
        /\ \E k \in 1..Len(entry.emitted) :
              /\ entry.emitted[k].type = "accident_alert"
              /\ entry.emitted[k].t = window[i].t}

\* C30: watchdog pattern 2 aborts on resumed movement: for an anchor followed
\* by a record containing stop, if any record after that stop (within the
\* scan) contains a directional event, the pattern does not fire for that
\* anchor, whatever no-proceed duration had been accumulated before the
\* directional event.
C30_AbortOnResumedMovement ==
    \A c \in Clients : \A j \in 1..Len(consumed[c]) :
        consumed[c][j].pattern = "obstacle_stop" =>
            \A i \in AlertAnchors(WindowAt(c, j), consumed[c][j]) :
                ~MovementResumedAfter(WindowAt(c, j), i)

\* what holds: the pattern does not fire when movement resumes before 30 s
\* without proceeding have been accumulated
C30_AbortBeforeThirtySeconds ==
    \A c \in Clients : \A j \in 1..Len(consumed[c]) :
        consumed[c][j].pattern = "obstacle_stop" =>
            \A i \in AlertAnchors(WindowAt(c, j), consumed[c][j]) :
                \A s, m \in (i + 1)..Len(WindowAt(c, j)) :
                    (/\ s < m
                     /\ "stop" \in ToSet(WindowAt(c, j)[s].events)
                     /\ has_movement(WindowAt(c, j)[m].events))
                        => \E k \in s..(m - 1) :
                              WindowAt(c, j)[k].t - WindowAt(c, j)[i].t
                                 >= ACCIDENT_NO_PROCEED_S

\* reachable: the record that triggers the obstacle-stop alert is a step forward
C30_AlertOnMovement ==
    \E c \in Clients : \E j \in 1..Len(consumed[c]) :
        /\ consumed[c][j].pattern = "obstacle_stop"
        /\ SentAccident(consumed[c][j])
        /\ has_movement(consumed[c][j].record.events)

-----------------------------------------------------------------------------
(* Properties that compare the watchdog with the indexer *)

\* the windows of two records or more the watchdog's calls have scanned
ScannedWindows ==
    UNION {{WindowAt(c, j) : j \in 2..Len(consumed[c])} : c \in Clients}

\* C31: the watchdog uses the stationary predicate and the depth-window rule
\* of the indexer: for every ordered record sequence held in the window, the
\* newest-to-oldest scan finds the newest record stationary iff the indexer's
\* oldest-to-newest walk over the same records does, and stationary_start is
\* the start of the indexer's trailing candidate interval.
C31_SameStationaryRule ==
    \A window \in ScannedWindows :
        stationary_start_of(window) = trailing_candidate(window, 1, None, << >>)

\* what holds: the same for windows without depth readings
C31_WithoutDepths ==
    \A window \in ScannedWindows :
        (\A i \in 1..Len(window) : window[i].free_ahead_m = None)
            => stationary_start_of(window) = trailing_candidate(window, 1, None, << >>)

\* reachable: three sightings with the same depth, the third stationary for
\* the indexer's walk and not for the watchdog's scan
C31_DepthWindowDiffers ==
    \E window \in ScannedWindows :
        /\ Len(window) = 3
        /\ \A i \in 1..3 : window[i].free_ahead_m = Some(30)
                             /\ "stop" \notin ToSet(window[i].events)
        /\ stationary_start_of(window) = None
        /\ trailing_candidate(window, 1, None, << >>) = Some(window[1].t)

-----------------------------------------------------------------------------
(* Properties of the veer-surge pattern, checked under SpecAccident *)

\* the positions of the directional records among the last 10 of a window
DirectionalInTail(window) ==
    {i \in LastTen(window) : has_movement(window[i].events)}

\* the tags containing "veer" over the last 5 records of a window
VeersInLastFive(window) ==
    veer_count([k \in 1..(IF Len(window) < 5 THEN Len(window) ELSE 5) |->
                   window[Len(window) - (IF Len(window) < 5 THEN Len(window) ELSE 5) + k]])

\* the time from the newest directional record of the 10-record tail to the
\* current record, from the first record of the window when there is none
SinceNewestDirectional(window, current_record) ==
    IF DirectionalInTail(window) = {} THEN current_record.t - window[1].t
    ELSE current_record.t - window[SetMax(DirectionalInTail(window))].t

\* the time from the oldest record after the newest directional record of the
\* tail to the current record, 0 when the newest record is directional
SinceFirstStillRecord(window, current_record) ==
    LET first == IF DirectionalInTail(window) = {} THEN SetMin(LastTen(window))
                 ELSE SetMax(DirectionalInTail(window)) + 1
    IN IF first > Len(window) THEN 0 ELSE current_record.t - window[first].t

\* patterns 1 and 2 did not fire on the client's call j, which ran on a window
\* of three records or more with the accident debounce elapsed
PatternThreeReached(c, j) ==
    /\ Len(WindowAt(c, j)) >= 3
    /\ AccidentTags(consumed[c][j].record) = {}
    /\ ~ObstacleStopMatches(c, j)
    /\ AccidentDebounceElapsed(c, j)

\* C32: pattern 3, reached only when patterns 1 and 2 did not fire, emits an
\* accident alert iff the tags containing 'veer' over the last 5 window
\* records are 3 or more, the current record contains stop, and the time
\* between the current record's t and the newest directional record of the
\* 10-record tail is 120 s or more (current_record.t - window[0].t when the
\* tail holds no directional record).
C32_VeerSurge ==
    \A c \in Clients : \A j \in 1..Len(consumed[c]) :
        PatternThreeReached(c, j) =>
            (SentAccident(consumed[c][j])
               <=> /\ VeersInLastFive(WindowAt(c, j)) >= 3
                   /\ "stop" \in ToSet(consumed[c][j].record.events)
                   /\ SinceNewestDirectional(WindowAt(c, j), consumed[c][j].record) >= 120)

\* what holds: the same with the time measured from the oldest record that
\* follows the newest directional record
C32_SinceStill ==
    \A c \in Clients : \A j \in 1..Len(consumed[c]) :
        PatternThreeReached(c, j) =>
            (SentAccident(consumed[c][j])
               <=> /\ VeersInLastFive(WindowAt(c, j)) >= 3
                   /\ "stop" \in ToSet(consumed[c][j].record.events)
                   /\ SinceFirstStillRecord(WindowAt(c, j), consumed[c][j].record) >= 120)

\* reachable: a veer surge, a stop 35 s later and a stop 120 s after that
\* raise the veer-surge alert
C32_SurgeAlert ==
    \E c \in Clients : \E j \in 1..Len(consumed[c]) :
        /\ PatternThreeReached(c, j)
        /\ consumed[c][j].pattern = "veer_surge"
        /\ SentAccident(consumed[c][j])

-----------------------------------------------------------------------------
(* Properties of the event categories, checked under SpecTags *)

\* the tags the records carry, and those among them that are directional by
\* containing veer_left, veer_right or proceed
DirectionalTags == {"veer_left_15", "veer_right", "veer_left", "proceed"}
Directional(record) == ToSet(record.events) \cap DirectionalTags # {}

\* the records of the last build that lie inside an interval it emitted
InsideEmitted ==
    {r \in ToSet(BuiltRecords) :
        \E k \in 1..Len(BuiltEmitted) :
            BuiltEmitted[k].start_t <= r.t /\ r.t <= BuiltEmitted[k].end_t}

\* C33: the event categories keep their asymmetry in indexer, watchdog and
\* planner: a tag is directional iff it contains veer_left, veer_right or
\* proceed (veer_left_15 qualifies), while OBSTACLE, ACCIDENT and STOP match
\* by exact membership only; so a record holding a directional tag is never
\* stationary, even when it also contains stop.
C33_CategoryAsymmetry ==
    /\ \A c \in Clients : \A j \in 1..Len(consumed[c]) :
          LET entry == consumed[c][j]
              since == stationary_start_of(WindowAt(c, j))
          IN /\ Directional(entry.record) => since = None /\ ~entry.stuck_detected
             /\ "stop" \notin ToSet(entry.record.events) => since = None
             /\ entry.pattern = "direct"
                   <=> ToSet(entry.record.events) \cap ACCIDENT_EVENTS # {}
    /\ last_build # None =>
          /\ \A k \in 1..Len(BuiltCandidates) :
                BuiltCandidates[k].events \subseteq OBSTACLE_EVENTS
                   /\ BuiltCandidates[k].events # {}
          /\ \A r \in InsideEmitted : ~Directional(r) /\ "stop" \in ToSet(r.events)
    /\ (Answered /\ last_query[1].ops # <<"is_authorized", "read_index">>) =>
          (Response.result.detected
             <=> \E k \in DOMAIN Response.index.by_time :
                    ToSet(Response.index.by_time[k].events) \cap ACCIDENT_EVENTS # {})

\* C33 witness: a record with stop and veer_left_15 arrived five minutes after
\* a stop and no stuck condition was found, and an index built over a record
\* with look-alike tags holds no near miss
C33_Witness ==
    /\ \E j \in 2..Len(consumed["alice"]) :
          /\ consumed["alice"][j].record.events = <<"stop", "veer_left_15">>
          /\ consumed["alice"][j - 1].record.events = <<"stop">>
          /\ consumed["alice"][j].now - consumed["alice"][j - 1].record.t >= STUCK_ALERT_S
          /\ ~consumed["alice"][j].stuck_detected
    /\ last_build # None
    /\ \E r \in ToSet(BuiltRecords) : "obstacle_closer" \in ToSet(r.events)
    /\ BuiltMoments = << >>

-----------------------------------------------------------------------------
(* Properties of the aggregation, checked under SpecSameT *)

\* the fetched records of the last build that keep the record invariants, in
\* the order fetched
AcceptedRecords == SelectSeq(FetchedRecords, RecordInvariant)

\* the classes of a record, none when it has no classes
ClassesOf(record) == IF record.classes = None THEN << >> ELSE record.classes[1]

RECURSIVE Total(_, _)
\* the sum of f over the positions 1..n
Total(f, n) == IF n = 0 THEN 0 ELSE f[n] + Total(f, n - 1)

\* C34: after every index build by_time holds one record per distinct t, the
\* last observed for that t, while for every tag e counters[e] = the length of
\* by_event[e] = the occurrences of e over all accepted records, those sharing
\* a t included; by_class likewise counts every accepted record.
C34_SharedTimestamps ==
    last_build # None =>
        LET accepted == AcceptedRecords
            n == Len(accepted)
        IN /\ DOMAIN BuiltIndex.by_time = {accepted[i].t : i \in 1..n}
           /\ \A i \in 1..n :
                 (\A j \in (i + 1)..n : accepted[j].t # accepted[i].t)
                    => /\ BuiltIndex.by_time[accepted[i].t].events = accepted[i].events
                       /\ BuiltIndex.by_time[accepted[i].t].classes = accepted[i].classes
                       /\ BuiltIndex.by_time[accepted[i].t].free_ahead_m
                             = accepted[i].free_ahead_m
           /\ DOMAIN BuiltIndex.counters = UNION {ToSet(accepted[i].events) : i \in 1..n}
           /\ DOMAIN BuiltIndex.by_event = DOMAIN BuiltIndex.counters
           /\ \A e \in DOMAIN BuiltIndex.counters :
                 /\ BuiltIndex.counters[e] = Len(BuiltIndex.by_event[e])
                 /\ BuiltIndex.counters[e]
                       = Total([i \in 1..n |-> Count(accepted[i].events, e)], n)
           /\ DOMAIN BuiltIndex.by_class = UNION {ToSet(ClassesOf(accepted[i])) : i \in 1..n}
           /\ \A c \in DOMAIN BuiltIndex.by_class :
                 BuiltIndex.by_class[c]
                    = Total([i \in 1..n |-> Count(ClassesOf(accepted[i]), c)], n)

\* C34 witness: two accepted records share t = 100; by_time keeps the second
\* and both are counted
C34_Witness ==
    /\ last_build # None
    /\ Len(AcceptedRecords) >= 2
    /\ AcceptedRecords[1].t = 100 /\ AcceptedRecords[2].t = 100
    /\ AcceptedRecords[1].events = <<"obstacle_center">>
    /\ AcceptedRecords[2].events = <<"obstacle_center">>
    /\ AcceptedRecords[1].free_ahead_m # AcceptedRecords[2].free_ahead_m
    /\ BuiltIndex.by_time[100].free_ahead_m = AcceptedRecords[2].free_ahead_m
    /\ BuiltIndex.counters["obstacle_center"] >= 2
    /\ Cardinality(DOMAIN BuiltIndex.by_time) < Len(AcceptedRecords)

-----------------------------------------------------------------------------
(* Properties of ingest, checked under SpecIngest *)

\* a request body keeps the record invariants
ValidBody(data) == required_fields \subseteq DOMAIN data /\ RecordInvariant(data)

\* C35: a record that fails a record invariant (confidence outside [0,1],
\* events that are no sequence) submitted to ingest is reported to the caller
\* as a validation error and is appended neither to the record store nor to
\* the client's watchdog window; only accepted records reach the watchdog.
C35_IngestValidates ==
    /\ (last_ingest # None /\ ~ValidBody(last_ingest[1].data)) => last_ingest[1].code = 400
    /\ \A i \in 1..Len(logs) : ValidBody(logs[i])
    /\ \A c \in DOMAIN client_windows :
          \A i \in 1..Len(client_windows[c]) : ValidBody(client_windows[c][i])

\* what holds: a body is refused iff it lacks a required field; every other
\* body is stored and reaches the watchdog
C35_RequiredFieldsOnly ==
    /\ last_ingest # None =>
          (last_ingest[1].code = 400
             <=> ~(required_fields \subseteq DOMAIN last_ingest[1].data))
    /\ \A i \in 1..Len(logs) : required_fields \subseteq DOMAIN logs[i]
    /\ Get(client_windows, "test_client", << >>) = Tail_n(logs, WINDOW_MAXLEN)

\* reachable: a record with confidence 1.5 answered with 200, stored and in the window
C35_InvalidStored ==
    /\ last_ingest # None /\ last_ingest[1].code = 200
    /\ last_ingest[1].data.confidence = 150
    /\ logs[Len(logs)] = last_ingest[1].data
    /\ client_windows["test_client"][Len(client_windows["test_client"])] = last_ingest[1].data

\* reachable: a body without confidence answered with 400 after records were stored
C35_MissingFieldRefused ==
    /\ last_ingest # None /\ last_ingest[1].code = 400
    /\ logs # << >>

-----------------------------------------------------------------------------
(* Properties of the per-client state, checked under SpecShards *)

\* the rows of table alerts that are about a client
AlertsAbout(table, c) == SelectSeq(table, LAMBDA row : row.client_id = c)

\* C36: process_record(r) for client c and clear_client_state(c) leave the
\* window, the last-stuck-alert and the last-accident-alert timestamps of
\* every other client unchanged and emit no alert for any other client.
C36_SharedNothing ==
    [][\A d \in Clients :
          consumed'[d] = consumed[d] =>
              /\ (d \in DOMAIN client_windows') = (d \in DOMAIN client_windows)
              /\ Get(client_windows', d, << >>) = Get(client_windows, d, << >>)
              /\ (d \in DOMAIN stuck_alerts') = (d \in DOMAIN stuck_alerts)
              /\ Get(stuck_alerts', d, 0) = Get(stuck_alerts, d, 0)
              /\ (d \in DOMAIN accident_alerts') = (d \in DOMAIN accident_alerts)
              /\ Get(accident_alerts', d, 0) = Get(accident_alerts, d, 0)
              /\ AlertsAbout(alerts', d) = AlertsAbout(alerts, d)]_vars

\* C36 witness: alice's state was cleared after her alerts, and test_client
\* still has its window and both its stamps
C36_Witness ==
    /\ AlertsAbout(alerts, "alice") # << >>
    /\ "alice" \in DOMAIN client_windows /\ client_windows["alice"] = << >>
    /\ "alice" \notin DOMAIN stuck_alerts /\ "alice" \notin DOMAIN accident_alerts
    /\ Len(Get(client_windows, "test_client", << >>)) >= 2
    /\ "test_client" \in DOMAIN stuck_alerts
    /\ "test_client" \in DOMAIN accident_alerts

-----------------------------------------------------------------------------
(* Properties of clear_client_state, checked under SpecClear *)

\* the call of an entry sent a stuck alert
SentStuck(entry) ==
    \E k \in 1..Len(entry.emitted) : entry.emitted[k].type = "stuck_alert"

\* the rows of table alerts of one kind about a client
AlertsOfKind(c, kind) ==
    SelectSeq(alerts, LAMBDA row : row.client_id = c /\ row.alert_type = kind)

\* C37: clear_client_state(c) resets debouncing: after it the next stuck
\* (accident) condition detected for c emits an alert even when less than
\* STUCK_DEBOUNCE (ACCIDENT_DEBOUNCE) has elapsed since c's previous alert of
\* that kind, and stuck detection restarts from the records processed after
\* the clear.
C37_ClearResetsDebounce ==
    \A c \in Clients : \A j \in 1..Len(consumed[c]) :
        LET entry == consumed[c][j]
        IN /\ (entry.stuck_detected /\ \A i \in 1..(j - 1) : ~SentStuck(consumed[c][i]))
                 => SentStuck(entry)
           /\ (entry.pattern # "none" /\ \A i \in 1..(j - 1) : ~SentAccident(consumed[c][i]))
                 => SentAccident(entry)
           /\ \A k \in 1..Len(entry.emitted) :
                 entry.emitted[k].type = "stuck_alert"
                    => entry.emitted[k].since[1] >= consumed[c][1].record.t

\* C37 witness: after a clear a second stuck alert 300 s after the first and a
\* second accident alert 300 s after the first
C37_Witness ==
    /\ Len(AlertsOfKind("test_client", "stuck_alert")) = 2
    /\ AlertsOfKind("test_client", "stuck_alert")[2].created_at
          - AlertsOfKind("test_client", "stuck_alert")[1].created_at = 300
    /\ AlertsOfKind("test_client", "stuck_alert")[2].since
          = Some(AlertsOfKind("test_client", "stuck_alert")[1].created_at)
    /\ Len(AlertsOfKind("test_client", "accident_alert")) = 2
    /\ AlertsOfKind("test_client", "accident_alert")[2].created_at
          - AlertsOfKind("test_client", "accident_alert")[1].created_at = 300

-----------------------------------------------------------------------------
(* Properties of the last-alert stamps of a client without contacts, checked
   under SpecNoContacts *)

\* the entry a process_record step adds to the record of client c
Processed(c) == consumed'[c][Len(consumed'[c])]

\* C38: when a stuck or accident condition passes its debounce check the
\* client's last-alert stamp of that kind is set to now even if the client has
\* no contacts, neither stored nor in the in-memory fallback, so that zero
\* notifications were sent; later conditions of that kind within the debounce
\* period are then suppressed.
C38_StampWithoutContacts ==
    [][\A c \in Clients :
          (Len(consumed'[c]) = Len(consumed[c]) + 1 /\ alert_contacts(c) = << >>)
             => /\ alerts' = alerts
                /\ Processed(c).stuck_detected
                      => IF Processed(c).now - Get(stuck_alerts, c, 0) >= 900
                         THEN /\ SentStuck(Processed(c))
                              /\ Get(stuck_alerts', c, 0) = Processed(c).now
                         ELSE /\ ~SentStuck(Processed(c))
                              /\ stuck_alerts' = stuck_alerts
                /\ Processed(c).pattern # "none"
                      => IF Processed(c).now - Get(accident_alerts, c, 0) >= 7200
                         THEN /\ SentAccident(Processed(c))
                              /\ Get(accident_alerts', c, 0) = Processed(c).now
                         ELSE /\ ~SentAccident(Processed(c))
                              /\ accident_alerts' = accident_alerts]_vars

\* C38 witness: alice has no contact and no alert row, both her stamps are
\* set, and a still record and an impact 300 s after the stamps went unanswered
C38_Witness ==
    /\ alert_contacts("alice") = << >>
    /\ alerts = << >>
    /\ Len(consumed["alice"]) = 3
    /\ Get(accident_alerts, "alice", 0) = consumed["alice"][1].now
    /\ Get(stuck_alerts, "alice", 0) = consumed["alice"][2].now
    /\ consumed["alice"][3].now = consumed["alice"][2].now + 300
    /\ consumed["alice"][3].stuck_detected
    /\ consumed["alice"][3].pattern # "none"
    /\ consumed["alice"][3].emitted = << >>

-----------------------------------------------------------------------------
(* Properties of the stored index across queries, checked under SpecStale *)

\* the index the query that just ran worked on
UsedIndex(query) ==
    IF query.outcome = "ok" THEN query.response[1].index ELSE query.index

\* C39: once an index is stored for (client, session?), every later
\* authorized query for that key computes its metric from that stored index,
\* whichever time window the query asks for and whichever records were
\* appended since: the planner never rebuilds or invalidates an existing
\* index, only an explicit index build replaces it.
C39_StoredIndexServed ==
    [][/\ (last_query' # last_query /\ last_query'[1].outcome # "PermissionError")
            => LET query == last_query'[1]
                   rows == RowsForKey(query.client_id, query.session_id)
               IN rows # {}
                    => /\ \E i \in rows : UsedIndex(query) = indices[i].index_data
                       /\ query.ops = <<"is_authorized", "read_index">>
                       /\ indices' = indices
                       /\ last_build' = last_build
                       /\ query.outcome = "ok"
                             => query.response[1].result
                                  = compute_metric(query.response[1].metric,
                                                   UsedIndex(query),
                                                   query.response[1].params, TRUE).result
       /\ last_query' # last_query
            => \A i \in 1..Len(indices) : i <= Len(indices') /\ indices'[i] = indices[i]
      ]_vars

\* C39 witness: a query about yesterday, asked when two records are stored,
\* was answered from the index built when there was one record, which is
\* neither the index of the window asked for nor the index of all records
C39_Witness ==
    /\ last_query # None /\ last_query[1].outcome = "ok"
    /\ last_query[1].ops = <<"is_authorized", "read_index">>
    /\ Len(logs) = 2
    /\ last_query[1].response[1].time_window.end < logs[1].t
    /\ last_query[1].response[1].index
          = json_index(build_index("alice", <<logs[1]>>))
    /\ last_query[1].response[1].index
          # json_index(build_index("alice", logs))
    /\ last_query[1].response[1].index
          # json_index(build_index("alice", << >>))
    /\ \E i \in RowsForKey("alice", last_query[1].session_id) :
          indices[i].index_data = last_query[1].response[1].index

-----------------------------------------------------------------------------
(* Properties of the records a build drops, checked under SpecDropped *)

\* a fetched record the build counts in dropped_records
Dropped(log_dict) ==
    ~validate_record(record_of(log_dict)) \/ add_raises(record_of(log_dict))

KeptRecords == SelectSeq(FetchedRecords, LAMBDA r : ~Dropped(r))

\* C40: a record dropped during an index build contributes nothing to
\* by_time, by_event, counters, by_class or the hazards, and after every build
\* dropped_records + (number of accepted records) = number of records fetched
\* from the record store.
C40_DroppedContributeNothing ==
    last_build # None =>
        LET kept == KeptRecords
            n == Len(kept)
        IN /\ BuiltIndex.dropped_records + n = Len(FetchedRecords)
           /\ DOMAIN BuiltIndex.by_time = {kept[i].t : i \in 1..n}
           /\ DOMAIN BuiltIndex.counters = UNION {ToSet(kept[i].events) : i \in 1..n}
           /\ DOMAIN BuiltIndex.by_event = DOMAIN BuiltIndex.counters
           /\ \A e \in DOMAIN BuiltIndex.counters :
                 /\ BuiltIndex.counters[e]
                       = Total([i \in 1..n |-> Count(kept[i].events, e)], n)
                 /\ Len(BuiltIndex.by_event[e]) = BuiltIndex.counters[e]
           /\ DOMAIN BuiltIndex.by_class = UNION {ToSet(ClassesOf(kept[i])) : i \in 1..n}
           /\ \A c \in DOMAIN BuiltIndex.by_class :
                 BuiltIndex.by_class[c]
                    = Total([i \in 1..n |-> Count(ClassesOf(kept[i]), c)], n)
           /\ BuiltIndex.hazards = build_index(BuiltIndex.client_id, kept).hazards

\* what holds: the count, and a record that fails validation contributes
\* nothing; a record dropped by the except clause stays where _add_to_index
\* had put it before it raised
C40_DroppedByValidation ==
    last_build # None =>
        LET accepted == AcceptedRecords
            n == Len(accepted)
        IN /\ BuiltIndex.dropped_records + Len(KeptRecords) = Len(FetchedRecords)
           /\ DOMAIN BuiltIndex.by_time = {accepted[i].t : i \in 1..n}
           /\ DOMAIN BuiltIndex.counters = UNION {ToSet(accepted[i].events) : i \in 1..n}
           /\ \A e \in DOMAIN BuiltIndex.counters :
                 BuiltIndex.counters[e]
                    = Total([i \in 1..n |-> Count(accepted[i].events, e)], n)
           /\ BuiltIndex.hazards
                 = compute_hazards([BuiltIndex EXCEPT !.hazards = << >>])

\* reachable: the only record fetched is counted as dropped and is in by_time,
\* in the counters, in by_class and among the near misses
C40_DroppedInIndex ==
    /\ last_build # None
    /\ Len(FetchedRecords) = 1
    /\ BuiltIndex.dropped_records = 1
    /\ DOMAIN BuiltIndex.by_time = {FetchedRecords[1].t}
    /\ Get(BuiltIndex.counters, "obstacle_center", 0) = 1
    /\ Get(BuiltIndex.by_class, "car", 0) = 1
    /\ Len(BuiltIndex.hazards.almost_crash_moments) = 1

====
